---- MODULE Spec2Model ----
(***************************************************************************)
(* Signature engine of DigitalSignatureSystem: RSA-PSS, DSA and ECDSA      *)
(* (src/algorithms/RSA.ts, src/unnamed/part_006 = DSA.ts + index.ts,       *)
(* src/algorithms/ECDSA.ts), modelled as state machines over the instance  *)
(* fields of the three classes.  Numbers are scaled down (bit lengths of   *)
(* the primes, length of the digest, size of the curve); the control flow  *)
(* and the arithmetic of every modelled method follow the source.          *)
(* Random bytes (crypto.getRandomValues) are drawn from RAND_BYTES.        *)
(***************************************************************************)
EXTENDS Integers, Sequences, FiniteSets, TLC

(***************************************************************************)
(* Bounds of the model                                                     *)
(***************************************************************************)
\* values a random byte can take
RAND_BYTES == {2, 9}
\* messages handed to sign and verify (strings as sequences of char codes)
MESSAGES == {<< >>, <<97>>}
\* number of sign calls made on one instance
MaxSigns == 2
\* number of sign calls one caller makes while another caller signs
MaxOverlapSigns == 1
\* number of generateKeys calls made on one instance
MaxKeyGens == 1
\* iterations of a nonce-derivation loop that are followed before the call
\* is taken not to return
MaxDrbgIter == 6
\* nested retries of sign (r = 0 or s = 0) that are followed
MaxRetry == 3
\* verify calls that are followed after a generateKeys or sign call
MaxVerifies == 1

(***************************************************************************)
(* Integer and byte helpers (BigInt and Uint8Array operations)             *)
(***************************************************************************)
\* Values computed once and used under a name are bound as
\*   CHOOSE res_ \in {body : x \in {e}} : TRUE
\* which is body with x the value of e; a chain of bindings reads from its
\* last line upward.

RECURSIVE Pow2(_)
Pow2(k) == IF k <= 0 THEN 1 ELSE 2 * Pow2(k - 1)

\* n.toString(2).length for n > 0, and 0 for n = 0
RECURSIVE BitLen(_)
BitLen(n) == IF n <= 0 THEN 0 ELSE 1 + BitLen(n \div 2)

\* Math.ceil(a / b) for a >= 0, b > 0
CeilDiv(a, b) == (a + b - 1) \div b

\* JavaScript % on BigInt: the remainder takes the sign of the dividend
Rem(a, m) == IF a >= 0 THEN a % m ELSE 0 - ((0 - a) % m)

RECURSIVE Xor(_, _)
Xor(a, b) == IF a = 0 THEN b
             ELSE IF b = 0 THEN a
             ELSE ((a + b) % 2) + 2 * Xor(a \div 2, b \div 2)

RECURSIVE BitAnd(_, _)
BitAnd(a, b) == IF a = 0 \/ b = 0 THEN 0
                ELSE ((a % 2) * (b % 2)) + 2 * BitAnd(a \div 2, b \div 2)

BitOr(a, b) == a + b - BitAnd(a, b)

\* big-endian bytes to integer: result = (result << 8) | bytes[i]
RECURSIVE BytesToInt(_)
BytesToInt(bs) == IF Len(bs) = 0 THEN 0
                  ELSE 256 * BytesToInt(SubSeq(bs, 1, Len(bs) - 1)) + bs[Len(bs)]

\* integer to big-endian bytes of exactly len bytes (low bytes kept)
RECURSIVE IntToBytesLen(_, _)
IntToBytesLen(n, len) == IF len = 0 THEN << >>
                         ELSE Append(IntToBytesLen(n \div 256, len - 1), n % 256)

\* random byte arrays of a given length
\* the byte arrays of length len with bytes of pool
RECURSIVE BytesOver(_, _)
BytesOver(pool, len) == IF len = 0 THEN {<< >>}
                        ELSE {<<b>> \o t : b \in pool, t \in BytesOver(pool, len - 1)}
RandBytes(len) == BytesOver(RAND_BYTES, len)

(***************************************************************************)
(* Hex strings: sequences of hex digits 0..15                              *)
(***************************************************************************)
RECURSIVE bytesToHex(_)
bytesToHex(bs) == IF Len(bs) = 0 THEN << >>
                  ELSE <<bs[1] \div 16, bs[1] % 16>> \o bytesToHex(Tail(bs))

\* parseInt of two digits (the caller has already padded an odd length)
RECURSIVE HexPairs(_)
HexPairs(hex) == IF Len(hex) < 2 THEN << >>
                 ELSE <<16 * hex[1] + hex[2]>> \o HexPairs(SubSeq(hex, 3, Len(hex)))

hexToBytes(hex) == IF Len(hex) % 2 # 0 THEN HexPairs(<<0>> \o hex) ELSE HexPairs(hex)

\* char code of a lower-case hex digit
HexChar(d) == IF d < 10 THEN 48 + d ELSE 87 + d

HexToChars(hex) == [i \in 1..Len(hex) |-> HexChar(hex[i])]

(***************************************************************************)
(* The digest primitive.  All three classes call SHA-256 of the platform   *)
(* (crypto.subtle.digest); the model uses a HASH_LENGTH-byte stand-in for  *)
(* it, a deterministic function of the byte string.                        *)
(***************************************************************************)
HASH_LENGTH == 1

RECURSIVE DigestFold(_, _)
DigestFold(h, bs) == IF Len(bs) = 0 THEN h
                     ELSE DigestFold((h * 37 + bs[1] + 11 + 3 * (h \div 16)) % 256, Tail(bs))

Digest(bs) == [i \in 1..HASH_LENGTH |-> DigestFold((106 + 61 * i) % 256, bs)]

\* sha256(message): hex string of the digest of the message
sha256(message) == bytesToHex(Digest(message))


(***************************************************************************)
(* JavaScript values of the fields of caller-supplied objects: a value     *)
(* BigInt() accepts (a bigint or a numeric string), a non-numeric string,  *)
(* or undefined.  BigInt() throws on the last two.                         *)
(***************************************************************************)
JNum(v) == [t |-> "num", v |-> v]
JText == [t |-> "text", v |-> 0]
JUndef == [t |-> "undef", v |-> 0]
CanBigInt(x) == x.t = "num"
\* JavaScript truthiness of a field (0n, "" and undefined are falsy)
Truthy(x) == (x.t = "num" /\ x.v # 0) \/ x.t = "text"

\* results of operations that may throw
Ok(v) == [ok |-> TRUE, v |-> v]
Throw == [ok |-> FALSE, v |-> 0]

(***************************************************************************)
(* DSA (src/unnamed/part_006)                                              *)
(***************************************************************************)
P_BITS == 11
Q_BITS == 8
HASH_BITS == 8 * HASH_LENGTH
\* Miller-Rabin rounds used for q and for p
MR_ROUNDS_Q == 2
MR_ROUNDS_P == 1
\* entries the modExp cache may hold
CACHE_LIMIT == 2
\* width (hex digits) to which constantTimeEquals pads both operands
CT_WIDTH == 2 * HASH_LENGTH

EmptyCache == [k \in {} |-> 0]

DSA_getBitLength(n) == BitLen(n)

\* ModExp loop of DSA.modExp: bits of the exponent from the most
\* significant one, square then multiply
RECURSIVE DSA_modExpLoop(_, _, _)
DSA_modExpLoop(base, exponent, modulus) ==
  IF exponent = 0 THEN 1 % modulus
  ELSE LET r0 == IF exponent \div 2 = 0 THEN 1
                 ELSE DSA_modExpLoop(base, exponent \div 2, modulus)
           sq == (r0 * r0) % modulus
       IN IF exponent % 2 = 1 THEN (sq * base) % modulus ELSE sq

\* DSA.modExp with its cache; the result carries the cache after the call
DSA_modExp(cache, base, exponent, modulus) ==
  LET cacheKey == <<base, exponent, modulus>> IN
  IF modulus = 1 THEN [ok |-> TRUE, v |-> 0, c |-> cache]
  ELSE IF cacheKey \in DOMAIN cache THEN [ok |-> TRUE, v |-> cache[cacheKey], c |-> cache]
  ELSE IF modulus = 0 THEN [ok |-> FALSE, v |-> 0, c |-> cache]
  ELSE LET result == DSA_modExpLoop(base, exponent, modulus) IN
       [ok |-> TRUE, v |-> result,
        c |-> IF Cardinality(DOMAIN cache) < CACHE_LIMIT
              THEN (cacheKey :> result) @@ cache ELSE cache]

\* extended Euclid of DSA.modInverse; state <<old_r, r, old_s, s>>
RECURSIVE EuclidLoop(_, _, _, _)
EuclidLoop(old_r, r, old_s, s) ==
  IF r = 0 THEN <<old_r, old_s>>
  ELSE LET quotient == old_r \div r IN
       EuclidLoop(r, old_r - quotient * r, s, old_s - quotient * s)

DSA_modInverse(a0, m) ==
  IF m = 0 THEN Throw
  ELSE LET a == (Rem(a0, m) + m) % m IN
       IF a = 0 THEN Throw
       ELSE LET e == EuclidLoop(a, m, 1, 0) IN
            IF e[1] # 1 THEN Throw ELSE Ok((Rem(e[2], m) + m) % m)

\* DSA.getRandomBigInt(min, max) for the random bytes rb
DSA_bytesNeeded(min, max) == CeilDiv(DSA_getBitLength(max - min), 8)
DSA_getRandomBigInt(min, max, rb) == min + (BytesToInt(rb) % ((max - min) + 1))

DSA_getRandomOddBigInt(bits, rb) ==
  LET minVal == Pow2(bits - 1)
      maxVal == Pow2(bits) - 1
      value == DSA_getRandomBigInt(minVal, maxVal, rb)
  IN IF value % 2 = 0 THEN value + 1 ELSE value

\* inner loop of millerRabinTest: up to r-1 squarings
RECURSIVE DSA_mrSquarings(_, _, _, _)
DSA_mrSquarings(cache, x, n, left) ==
  IF left <= 0 THEN [found |-> FALSE, c |-> cache]
  ELSE LET sq == DSA_modExp(cache, x, 2, n) IN
       IF sq.v = n - 1 THEN [found |-> TRUE, c |-> sq.c]
       ELSE DSA_mrSquarings(sq.c, sq.v, n, left - 1)

RECURSIVE DSA_mrRounds(_, _, _, _, _, _)
DSA_mrRounds(cache, n, d, r, draws, i) ==
  IF i > Len(draws) THEN [v |-> TRUE, c |-> cache]
  ELSE LET a == DSA_getRandomBigInt(2, n - 2, draws[i])
           x == DSA_modExp(cache, a, d, n)
       IN IF x.v = 1 \/ x.v = n - 1 THEN DSA_mrRounds(x.c, n, d, r, draws, i + 1)
          ELSE LET sq == DSA_mrSquarings(x.c, x.v, n, r - 1) IN
               IF sq.found THEN DSA_mrRounds(sq.c, n, d, r, draws, i + 1)
               ELSE [v |-> FALSE, c |-> sq.c]

RECURSIVE OddPart(_)
OddPart(d) == IF d % 2 = 0 /\ d > 0 THEN OddPart(d \div 2) ELSE d
RECURSIVE TwoExp(_)
TwoExp(d) == IF d % 2 = 0 /\ d > 0 THEN 1 + TwoExp(d \div 2) ELSE 0

\* DSA.millerRabinTest(n, k); draws[i] are the random bytes of round i
DSA_millerRabinTest(cache, n, draws) ==
  IF n <= 1 THEN [v |-> FALSE, c |-> cache]
  ELSE IF n <= 3 THEN [v |-> TRUE, c |-> cache]
  ELSE IF n % 2 = 0 THEN [v |-> FALSE, c |-> cache]
  ELSE DSA_mrRounds(cache, n, OddPart(n - 1), TwoExp(n - 1), draws, 1)

\* DSA.calculateGenerator(p, q): the first h >= 2 with h^((p-1)/q) mod p > 1
RECURSIVE DSA_calculateGeneratorFrom(_, _, _, _)
DSA_calculateGeneratorFrom(cache, h, p, factor) ==
  IF ~(h < p - 1) THEN [ok |-> FALSE, v |-> 0, c |-> cache]
  ELSE LET g == DSA_modExp(cache, h, factor, p) IN
       IF g.v > 1 THEN [ok |-> TRUE, v |-> g.v, c |-> g.c]
       ELSE DSA_calculateGeneratorFrom(g.c, h + 1, p, factor)

\* a generator taken as h = 2, not raised to the power (p-1)/q
DSA_calculateGenerator_noPower(cache, p, q) == [ok |-> TRUE, v |-> 2, c |-> cache]

DSA_calculateGenerator(cache, p, q) == DSA_calculateGeneratorFrom(cache, 2, p, (p - 1) \div q)

\* DSA.bigintToBytes
DSA_bigintToBytes(n) ==
  IF n = 0 THEN <<0>> ELSE IntToBytesLen(n, CeilDiv(DSA_getBitLength(n), 8))

\* getFullSHA256(message): hex string of the digest
DSA_getFullSHA256(message) == bytesToHex(Digest(message))

\* a hash value that does not depend on the message
DSA_hashSHA256_constant(thisQ, message) == IF thisQ = 0 THEN Throw ELSE Ok(1)

\* DSA.hashSHA256: the digest truncated to the bit length of the q of the
\* instance and reduced modulo that q (division by zero throws)
DSA_hashSHA256(thisQ, message) ==
  LET fullHashBytes == hexToBytes(DSA_getFullSHA256(message))
      qBitLength == DSA_getBitLength(thisQ)
      hashBitsToUse == IF HASH_BITS < qBitLength THEN HASH_BITS ELSE qBitLength
      bytesToUse == CeilDiv(hashBitsToUse, 8)
      hashValue == BytesToInt(SubSeq(fullHashBytes, 1, bytesToUse))
      shifted == IF HASH_BITS > qBitLength
                 THEN hashValue \div Pow2(HASH_BITS - qBitLength) ELSE hashValue
  IN IF thisQ = 0 THEN Throw ELSE Ok(shifted % thisQ)

\* integer to hex digits (toString(16)) and padStart with '0'
RECURSIVE ToHex(_)
ToHex(n) == IF n < 16 THEN <<n>> ELSE Append(ToHex(n \div 16), n % 16)
RECURSIVE PadStart(_, _)
PadStart(hex, width) == IF Len(hex) >= width THEN hex ELSE PadStart(<<0>> \o hex, width)

\* a comparison that leaves the last hex digit out
DSA_constantTimeEquals_highDigits(a, b) == a \div 16 = b \div 16

DSA_constantTimeEquals(a, b) ==
  LET aStr == PadStart(ToHex(a), CT_WIDTH)
      bStr == PadStart(ToHex(b), CT_WIDTH)
  IN IF Len(aStr) # Len(bStr) THEN FALSE
     ELSE \A i \in 1..Len(aStr) : Xor(aStr[i], bStr[i]) = 0


(***************************************************************************)
(* DSA.generateDeterministicK.  K and V are HASH_LENGTH bytes (the length  *)
(* of a digest); usedKValues is the used-nonce set of the instance.        *)
(***************************************************************************)
Fill(len, b) == [i \in 1..len |-> b]

\* a pass that returns its candidate without looking it up in usedKValues
DSA_kPass_noLookup(thisQ, used, k, v, t) ==
  LET newV == Digest(k \o v)
      kBigInt == (IF thisQ = 0 THEN 0 ELSE BytesToInt(newV) % (thisQ - 1)) + 1
  IN [status |-> "ret", nonce |-> kBigInt, used |-> used \cup {kBigInt},
      k |-> k, v |-> newV, t |-> newV]

\* one pass of the while (true) loop, lines 414-464, which ends at an await
\* or at the return: status "next" carries K, V and T of the next pass
DSA_kPass(thisQ, used, k, v, t) ==
  LET newV == Digest(k \o v)
      tNew == t \o newV
  IN IF Len(tNew) >= HASH_LENGTH
     THEN IF thisQ = 1 THEN [status |-> "throw", nonce |-> 0, used |-> used,
                             k |-> k, v |-> newV, t |-> tNew]
          ELSE LET t32 == BytesToInt(SubSeq(tNew, 1, HASH_LENGTH))
                   kBigInt == (IF thisQ = 0 THEN 0 ELSE t32 % (thisQ - 1)) + 1
               IN IF kBigInt \notin used
                  THEN [status |-> "ret", nonce |-> kBigInt, used |-> used \cup {kBigInt},
                        k |-> k, v |-> newV, t |-> tNew]
                  ELSE LET k3 == Digest(k \o (newV \o <<0>>))
                           v3 == Digest(k3 \o newV)
                       IN [status |-> "next", nonce |-> 0, used |-> used,
                           k |-> k3, v |-> v3, t |-> << >>]
     ELSE [status |-> "next", nonce |-> 0, used |-> used, k |-> k, v |-> newV, t |-> tNew]

\* the while (true) loop: lines 414-464
RECURSIVE DSA_kLoop(_, _, _, _, _, _)
DSA_kLoop(thisQ, used, k, v, t, fuel) ==
  IF fuel = 0 THEN [status |-> "hang", k |-> 0, used |-> used]
  ELSE LET pass == DSA_kPass(thisQ, used, k, v, t)
       IN IF pass.status = "next"
          THEN DSA_kLoop(thisQ, used, pass.k, pass.v, pass.t, fuel - 1)
          ELSE [status |-> pass.status, k |-> pass.nonce, used |-> pass.used]

\* lines 360-408: K and V before the loop
DSA_kSeed(privateKey, messageHash) ==
  LET xBytes == DSA_bigintToBytes(privateKey)
      mBytes == DSA_bigintToBytes(messageHash)
      v0 == Fill(HASH_LENGTH, 1)
      k1 == Digest(((v0 \o <<0>>) \o xBytes) \o mBytes)
      v1 == Digest(k1 \o v0)
      k2 == Digest(((v1 \o <<1>>) \o xBytes) \o mBytes)
      v2 == Digest(k2 \o v1)
  IN [k |-> k2, v |-> v2, t |-> << >>]

DSA_generateDeterministicK(thisQ, used, privateKey, messageHash) ==
  LET seed == DSA_kSeed(privateKey, messageHash)
  IN DSA_kLoop(thisQ, used, seed.k, seed.v, seed.t, MaxDrbgIter)

(***************************************************************************)
(* Key pairs and signature objects of DSA as the callers hold them         *)
(***************************************************************************)
DSA_NoKeys == [defined |-> FALSE, p |-> JUndef, q |-> JUndef, g |-> JUndef,
               y |-> JUndef, x |-> JUndef]
DSA_NoSig == [defined |-> FALSE, r |-> JUndef, s |-> JUndef, messageHash |-> << >>]

\* fields p, q, g of the instance with its used-nonce set and modExp cache
DSA_New == [p |-> 0, q |-> 0, g |-> 0, usedKValues |-> {}, modExpCache |-> EmptyCache]

(***************************************************************************)
(* DSA.sign.  The result says whether the call returned a signature, threw *)
(* or did not return, and carries the instance state after the call and    *)
(* the nonce of the returned signature.                                    *)
(***************************************************************************)
DSA_signEnd(status, self, k, sig) ==
  [status |-> status, self |-> self, k |-> k, sig |-> sig]

\* lines 591-624 of sign, after generateDeterministicK returned k: status
\* "retry" stands for the calls return this.sign(message, keys)
DSA_signWithK(self, message, keys, messageHash, k) ==
  LET p == IF Truthy(keys.p) THEN keys.p.v ELSE self.p
      q == IF Truthy(keys.q) THEN keys.q.v ELSE self.q
      g == IF Truthy(keys.g) THEN keys.g.v ELSE self.g
      x == keys.x.v
      gk == DSA_modExp(self.modExpCache, g, k, p)
      self2 == [self EXCEPT !.modExpCache = gk.c]
  IN IF ~gk.ok \/ q = 0 THEN DSA_signEnd("throw", self2, 0, DSA_NoSig)
     ELSE
     LET r == gk.v % q IN
     IF DSA_constantTimeEquals(r, 0) THEN DSA_signEnd("retry", self2, k, DSA_NoSig)
     ELSE
     LET kInv == DSA_modInverse(k, q) IN
     IF ~kInv.ok THEN DSA_signEnd("throw", self2, 0, DSA_NoSig)
     ELSE
     LET xr == (x * r) % q
         sum == (messageHash + xr) % q
         s == (kInv.v * sum) % q
     IN IF DSA_constantTimeEquals(s, 0) THEN DSA_signEnd("retry", self2, k, DSA_NoSig)
        ELSE DSA_signEnd("ret", self2, k,
               [defined |-> TRUE, r |-> JNum(r), s |-> JNum(s),
                messageHash |-> DSA_getFullSHA256(message)])

\* lines 576-585 of sign: what BigInt() throws on
DSA_signArgsThrow(keys) ==
  \/ ~keys.defined
  \/ \E f \in {keys.p, keys.q, keys.g} : Truthy(f) /\ ~CanBigInt(f)
  \/ ~CanBigInt(keys.x)

RECURSIVE DSA_sign(_, _, _, _)
DSA_sign(self, message, keys, fuel) ==
  IF fuel = 0 THEN DSA_signEnd("hang", self, 0, DSA_NoSig)
  ELSE IF DSA_signArgsThrow(keys) THEN DSA_signEnd("throw", self, 0, DSA_NoSig)
  ELSE
  LET messageHash == DSA_hashSHA256(self.q, message)
  IN IF ~messageHash.ok THEN DSA_signEnd("throw", self, 0, DSA_NoSig)
     ELSE
     LET kRes == DSA_generateDeterministicK(self.q, self.usedKValues, keys.x.v,
                                            messageHash.v)
         self1 == [self EXCEPT !.usedKValues = kRes.used]
     IN IF kRes.status # "ret" THEN DSA_signEnd(kRes.status, self1, 0, DSA_NoSig)
        ELSE
        LET res == DSA_signWithK(self1, message, keys, messageHash.v, kRes.k)
        IN IF res.status = "retry" THEN DSA_sign(res.self, message, keys, fuel - 1)
           ELSE res

(***************************************************************************)
(* DSA.verify.  work lists the modular inverses and exponentiations the    *)
(* call computed, in order.                                                *)
(***************************************************************************)
DSA_verifyEnd(thrown, result, cache, work) ==
  [thrown |-> thrown, result |-> result, cache |-> cache, work |-> work]

\* a range check that lets r = q and s = q through
DSA_rangeOk_inclusive(rBigInt, sBigInt, q) ==
  ~(rBigInt <= 0 \/ rBigInt > q \/ sBigInt <= 0 \/ sBigInt > q)

\* the range check of lines 649-651
DSA_rangeOk(rBigInt, sBigInt, q) ==
  ~(rBigInt <= 0 \/ rBigInt >= q \/ sBigInt <= 0 \/ sBigInt >= q)

\* the body of the try block: lines 637-672
DSA_verifyTry(self, message, signature, keys) ==
  LET c0 == self.modExpCache IN
  IF ~keys.defined THEN DSA_verifyEnd(TRUE, FALSE, c0, << >>)
  ELSE IF \E f \in {keys.p, keys.q, keys.g, keys.y} : ~CanBigInt(f)
       THEN DSA_verifyEnd(TRUE, FALSE, c0, << >>)
  ELSE IF ~signature.defined THEN DSA_verifyEnd(TRUE, FALSE, c0, << >>)
  ELSE IF ~CanBigInt(signature.r) \/ ~CanBigInt(signature.s)
       THEN DSA_verifyEnd(TRUE, FALSE, c0, << >>)
  ELSE
  LET p == keys.p.v
      q == keys.q.v
      g == keys.g.v
      y == keys.y.v
      rBigInt == signature.r.v
      sBigInt == signature.s.v
  IN IF ~DSA_rangeOk(rBigInt, sBigInt, q)
     THEN DSA_verifyEnd(FALSE, FALSE, c0, << >>)
     ELSE
     LET w == DSA_modInverse(sBigInt, q) IN
     IF ~w.ok THEN DSA_verifyEnd(TRUE, FALSE, c0, <<"modInverse">>)
     ELSE
     LET messageHash == DSA_hashSHA256(self.q, message) IN
     IF ~messageHash.ok THEN DSA_verifyEnd(TRUE, FALSE, c0, <<"modInverse">>)
     ELSE
     LET u1 == (messageHash.v * w.v) % q
         u2 == (rBigInt * w.v) % q
         v1 == DSA_modExp(c0, g, u1, p)
     IN IF ~v1.ok THEN DSA_verifyEnd(TRUE, FALSE, v1.c, <<"modInverse", "modExp">>)
        ELSE
        LET v2 == DSA_modExp(v1.c, y, u2, p) IN
        IF ~v2.ok THEN DSA_verifyEnd(TRUE, FALSE, v2.c, <<"modInverse", "modExp", "modExp">>)
        ELSE
        LET v == ((v1.v * v2.v) % p) % q IN
        DSA_verifyEnd(FALSE, DSA_constantTimeEquals(v, rBigInt), v2.c,
                      <<"modInverse", "modExp", "modExp">>)

\* the catch block: lines 673-676
DSA_verifyCatch(t) == [t EXCEPT !.thrown = FALSE, !.result = FALSE]

DSA_verify(self, message, signature, keys) ==
  LET t == DSA_verifyTry(self, message, signature, keys) IN
  IF t.thrown THEN DSA_verifyCatch(t) ELSE t


(***************************************************************************)
(* RSA-PSS (src/algorithms/RSA.ts)                                         *)
(***************************************************************************)
RSA_e == 65537
\* the public exponent scaled as the primes are, so that it divides p - 1 for
\* a prime generateLargePrime returns
RSA_E_SCALED == 5
SALT_LENGTH == 1
\* salt length used for the digest of the empty message: 8 of the 32 bytes
\* of SALT_LENGTH in the source, scaled as SALT_LENGTH is so that it stays
\* below it
EMPTY_SALT_LENGTH == 0
\* bit length of the primes p and q, and Miller-Rabin rounds per candidate
RSA_PRIME_BITS == 16
RSA_MR_ROUNDS == 1

Min(a, b) == IF a < b THEN a ELSE b
Max(a, b) == IF a > b THEN a ELSE b

\* (a * b) % m on BigInt, computed without leaving the integer range: the
\* loop state is <<sum, addend, multiplier, m>>
AddMod(x, y, m) == IF x >= m - y THEN x - (m - y) ELSE x + y
RECURSIVE MulModLoop(_)
MulModLoop(st) ==
  IF st[3] = 0 THEN st[1]
  ELSE MulModLoop(<<IF st[3] % 2 = 1 THEN AddMod(st[1], st[2], st[4]) ELSE st[1],
                    AddMod(st[2], st[2], st[4]), st[3] \div 2, st[4]>>)
MulMod(a, b, m) == MulModLoop(<<0, a % m, b, m>>)

\* RSA.modExp: bits of the exponent from the least significant one; the
\* loop state is <<result, base, exponent, modulus>>
RECURSIVE RSA_modExpLoop(_)
RSA_modExpLoop(st) ==
  IF st[3] <= 0 THEN st[1]
  ELSE RSA_modExpLoop(<<IF st[3] % 2 = 1 THEN MulMod(st[1], st[2], st[4]) ELSE st[1],
                        MulMod(st[2], st[2], st[4]), st[3] \div 2, st[4]>>)

RSA_modExp(base, exponent, modulus) ==
  IF modulus = 1 THEN 0 ELSE RSA_modExpLoop(<<1, base % modulus, exponent, modulus>>)

\* modInverse without the test of the gcd
RSA_modInverse_noGcdTest(a0, m) ==
  IF m = 1 THEN Ok(0)
  ELSE IF m = 0 THEN Throw
  ELSE Ok((Rem(EuclidLoop((Rem(a0, m) + m) % m, m, 1, 0)[2], m) + m) % m)

RSA_modInverse(a0, m) ==
  IF m = 1 THEN Ok(0)
  ELSE IF m = 0 THEN Throw
  ELSE (CHOOSE res_ \in {
       IF e[1] # 1 THEN Throw ELSE Ok((Rem(e[2], m) + m) % m)
       : e \in {EuclidLoop((Rem(a0, m) + m) % m, m, 1, 0)}} : TRUE)

\* RSA.generateRandomBigInt for the random bytes rb: the lowest bit and the
\* highest bit of the byte array are set
RSA_generateRandomBigInt(rb) ==
  (CHOOSE res_ \in {
  (CHOOSE res_ \in {
  (CHOOSE res_ \in {
  BytesToInt(top)
  : top \in {[odd EXCEPT ![1] = BitOr(@, 128)]}} : TRUE)
  : odd \in {[rb EXCEPT ![n] = BitOr(@, 1)]}} : TRUE)
  : n \in {Len(rb)}} : TRUE)

\* values RSA.randomBigIntInRange(min, max) can return when the random
\* bytes are bytes of pool; it does not return when no draw is below the
\* range
RSA_randomBigIntInRangeOver(pool, min, max) ==
  (CHOOSE res_ \in {
  (CHOOSE res_ \in {
  {min + RSA_generateRandomBigInt(rb) : rb \in
        {x \in BytesOver(pool, CeilDiv(bits, 8)) : RSA_generateRandomBigInt(x) < range}}
  : bits \in {BitLen(range)}} : TRUE)
  : range \in {max - min + 1}} : TRUE)

RSA_randomBigIntInRange(min, max) == RSA_randomBigIntInRangeOver(RAND_BYTES, min, max)

\* an inner loop that makes no squaring
RSA_mrSquarings_none(x, n, left) == FALSE

RECURSIVE RSA_mrSquarings(_, _, _)
RSA_mrSquarings(x, n, left) ==
  IF left <= 0 THEN FALSE
  ELSE (CHOOSE res_ \in {
       IF sq = n - 1 THEN TRUE ELSE RSA_mrSquarings(sq, n, left - 1)
       : sq \in {RSA_modExp(x, 2, n)}} : TRUE)

\* RSA.millerRabinTest(n, k) for the bases as[1..k] drawn in its rounds
RSA_millerRabinTest(n, as) ==
  IF n <= 1 THEN FALSE
  ELSE IF n = 2 \/ n = 3 THEN TRUE
  ELSE IF n % 2 = 0 THEN FALSE
  ELSE (CHOOSE res_ \in {
       (CHOOSE res_ \in {
       \A i \in 1..Len(as) :
            (CHOOSE res_ \in {
            x = 1 \/ x = n - 1 \/ RSA_mrSquarings(x, n, r - 1)
            : x \in {RSA_modExp(as[i], d, n)}} : TRUE)
       : r \in {TwoExp(n - 1)}} : TRUE)
       : d \in {OddPart(n - 1)}} : TRUE)

\* simpleHashBytes: eight 32-bit words h = ((h << 5) - h) + byte, kept as
\* <<high half, low half>>; the result is their 32 bytes
RSA_H_INIT == << <<27145, 58983>>, <<47975, 44677>>, <<15470, 62322>>, <<42319, 62778>>,
                 <<20750, 21119>>, <<39685, 26764>>, <<8067, 55723>>, <<23520, 52505>> >>

RECURSIVE RSA_hashWord(_, _)
RSA_hashWord(h, data) ==
  IF Len(data) = 0 THEN h
  ELSE (CHOOSE res_ \in {
       (CHOOSE res_ \in {
       RSA_hashWord(<<hi % 65536, lo % 65536>>, Tail(data))
       : hi \in {31 * h[1] + (lo \div 65536)}} : TRUE)
       : lo \in {31 * h[2] + data[1]}} : TRUE)

RSA_simpleHashBytes(data) ==
  (CHOOSE res_ \in {
  [k \in 1..32 |->
     (CHOOSE res_ \in {
     (CHOOSE res_ \in {
     IF i = 0 THEN h[1] \div 256 ELSE IF i = 1 THEN h[1] % 256
        ELSE IF i = 2 THEN h[2] \div 256 ELSE h[2] % 256
     : h \in {w[((k - 1) \div 4) + 1]}} : TRUE)
     : i \in {(k - 1) % 4}} : TRUE)]
  : w \in {[j \in 1..8 |-> RSA_hashWord(RSA_H_INIT[j], data)]}} : TRUE)

\* RSA.mgf1(seed, maskLen)
RECURSIVE RSA_mgf1Loop(_, _, _, _)
RSA_mgf1Loop(seed, maskLen, counter, mask) ==
  IF ~(Len(mask) < maskLen) THEN mask
  ELSE (CHOOSE res_ \in {
       (CHOOSE res_ \in {
       RSA_mgf1Loop(seed, maskLen, counter + 1, mask \o SubSeq(hash, 1, len))
       : len \in {Min(Len(hash), maskLen - Len(mask))}} : TRUE)
       : hash \in {RSA_simpleHashBytes(seed \o IntToBytesLen(counter, 4))}} : TRUE)

RSA_mgf1(seed, maskLen) == RSA_mgf1Loop(seed, maskLen, 0, << >>)

XorBytes(a, b) == [i \in 1..Len(a) |-> Xor(a[i], b[i])]

\* H = Hash(M') with M' = eight zero bytes || mHash || salt; sha256 is given
\* the hex string of M'
RSA_hashMPrime(mHash, salt) ==
  hexToBytes(sha256(HexToChars(bytesToHex((Fill(8, 0) \o mHash) \o salt))))

\* RSA.constantTimeCompare
RSA_constantTimeCompare(a, b) ==
  IF Len(a) # Len(b) THEN FALSE ELSE \A i \in 1..Len(a) : Xor(a[i], b[i]) = 0

\* the salt argument of emsa_pss_encode and emsa_pss_verify: a byte array,
\* or undefined / null
NoSalt == [given |-> FALSE, v |-> << >>]
Salt(bytes) == [given |-> TRUE, v |-> bytes]

\* RSA.emsa_pss_encode(messageHash, emBits, forceSalt); rnd are the random
\* bytes used when no salt is passed.  The result carries the hex string of
\* EM and the salt stored in this.lastSalt.
RSA_emsa_pss_encode(messageHash0, emBits, forceSalt, rnd) ==
  (CHOOSE res_ \in {
  (CHOOSE res_ \in {
  (CHOOSE res_ \in {
  IF emLen < Len(mHash) + 2 THEN [ok |-> FALSE, v |-> << >>, lastSalt |-> NoSalt]
     ELSE
     (CHOOSE res_ \in {
     (CHOOSE res_ \in {
     (CHOOSE res_ \in {
     (CHOOSE res_ \in {
     (CHOOSE res_ \in {
     (CHOOSE res_ \in {
     (CHOOSE res_ \in {
     (CHOOSE res_ \in {
     (CHOOSE res_ \in {
     (CHOOSE res_ \in {
     (CHOOSE res_ \in {
     (CHOOSE res_ \in {
     [ok |-> TRUE, v |-> bytesToHex(em), lastSalt |-> Salt(salt)]
     : em \in {(maskedDB \o h) \o <<188>>}} : TRUE)
     : maskedDB \in {IF bitsToZero > 0 /\ Len(masked) > 0
                     THEN [masked EXCEPT ![1] = @ % Pow2(8 - bitsToZero)] ELSE masked}} : TRUE)
     : bitsToZero \in {8 * emLen - emBits}} : TRUE)
     : masked \in {XorBytes(db, RSA_mgf1(h, dbLen))}} : TRUE)
     : db \in {IF Len(salt) = 0 THEN Fill(dbLen, 0)
               ELSE IF separatorPos >= 0 /\ separatorPos < dbLen
                    THEN (Fill(separatorPos, 0) \o <<1>>) \o salt
               ELSE IF Len(salt) < dbLen
                    THEN salt \o Fill(dbLen - Len(salt), 0)
               ELSE Fill(dbLen, 0)}} : TRUE)
     : separatorPos \in {dbLen - Len(salt) - 1}} : TRUE)
     : h \in {RSA_hashMPrime(mHash, salt)}} : TRUE)
     : salt \in {IF forceSalt.given
                 THEN (IF Len(forceSalt.v) > saltLength
                       THEN SubSeq(forceSalt.v, 1, saltLength) ELSE forceSalt.v)
                 ELSE (IF saltLength > 0 THEN SubSeq(rnd, 1, saltLength) ELSE << >>)}} : TRUE)
     : saltLength \in {IF messageHash = sha256(<< >>) THEN Min(EMPTY_SALT_LENGTH, sl1) ELSE sl1}} : TRUE)
     : sl1 \in {IF sl0 >= dbLen THEN Max(0, dbLen - 1) ELSE sl0}} : TRUE)
     : sl0 \in {Min(SALT_LENGTH, Max(0, dbLen - 1))}} : TRUE)
     : dbLen \in {emLen - Len(mHash) - 1}} : TRUE)
  : emLen \in {CeilDiv(emBits, 8)}} : TRUE)
  : mHash \in {hexToBytes(messageHash)}} : TRUE)
  : messageHash \in {IF Len(messageHash0) = 0 THEN sha256(<< >>) ELSE messageHash0}} : TRUE)

\* the search for the separator 0x01 in DB: lines 418-456; the result is the
\* salt offset, or -1 when the verification fails there
RECURSIVE RSA_findSeparator(_, _)
RSA_findSeparator(db, i) ==
  IF i >= Len(db) THEN -1
  ELSE IF db[i + 1] = 1 THEN i + 1
  ELSE IF db[i + 1] # 0 /\ Len(db) - i >= HASH_LENGTH THEN i + 1
  ELSE RSA_findSeparator(db, i + 1)

RSA_saltOffset(db, bitsToZero) ==
  (CHOOSE res_ \in {
  IF found # -1 THEN found
  ELSE IF \A i \in 1..Len(db) : db[i] = 0 THEN Len(db)
  ELSE IF Len(db) > HASH_LENGTH THEN Len(db) - HASH_LENGTH
  ELSE -1
  : found \in {RSA_findSeparator(db, IF bitsToZero > 0 THEN 1 ELSE 0)}} : TRUE)

\* RSA.emsa_pss_verify(messageHash, encMessage, emBits, knownSalt)
RSA_emsa_pss_verify(messageHash, encMessage, emBits, knownSalt) ==
  (CHOOSE res_ \in {
  (CHOOSE res_ \in {
  (CHOOSE res_ \in {
  (CHOOSE res_ \in {
  IF emLen < hLen + 1 THEN FALSE
     ELSE IF Len(em) = 0 \/ em[Len(em)] # 188 THEN FALSE
     ELSE IF Len(em) < hLen + 1 THEN FALSE
     ELSE
     (CHOOSE res_ \in {
     (CHOOSE res_ \in {
     (CHOOSE res_ \in {
     (CHOOSE res_ \in {
     IF bitsToZero > 0 /\ dbLen > 0 /\ maskedDB[1] \div Pow2(8 - bitsToZero) # 0
        THEN FALSE
        ELSE
        (CHOOSE res_ \in {
        (CHOOSE res_ \in {
        (CHOOSE res_ \in {
        IF saltOffset = -1 THEN FALSE
           ELSE
           (CHOOSE res_ \in {
           (CHOOSE res_ \in {
           RSA_constantTimeCompare(h, RSA_hashMPrime(mHash, salt))
           : salt \in {IF knownSalt.given /\ Len(knownSalt.v) > 0
                       THEN knownSalt.v ELSE extracted}} : TRUE)
           : extracted \in {IF saltOffset >= dbLen THEN << >>
                            ELSE SubSeq(db, saltOffset + 1, dbLen)}} : TRUE)
        : saltOffset \in {RSA_saltOffset(db, bitsToZero)}} : TRUE)
        : db \in {IF bitsToZero > 0 /\ dbLen > 0
                  THEN [db0 EXCEPT ![1] = @ % Pow2(8 - bitsToZero)] ELSE db0}} : TRUE)
        : db0 \in {XorBytes(maskedDB, RSA_mgf1(h, dbLen))}} : TRUE)
     : bitsToZero \in {8 * emLen - emBits}} : TRUE)
     : h \in {SubSeq(em, dbLen + 1, dbLen + hLen)}} : TRUE)
     : maskedDB \in {SubSeq(em, 1, dbLen)}} : TRUE)
     : dbLen \in {Len(em) - hLen - 1}} : TRUE)
  : hLen \in {Len(mHash)}} : TRUE)
  : emLen \in {CeilDiv(emBits, 8)}} : TRUE)
  : em \in {hexToBytes(encMessage)}} : TRUE)
  : mHash \in {hexToBytes(messageHash)}} : TRUE)

(***************************************************************************)
(* Key pairs and signature objects of RSA as the callers hold them.  The   *)
(* fields messageHash and salt are hex strings, empty when absent.         *)
(***************************************************************************)
RSA_NoKeys == [defined |-> FALSE, n |-> JUndef, d |-> JUndef]
RSA_NoSig == [defined |-> FALSE, signature |-> JUndef, originalSignature |-> JUndef,
              messageHash |-> << >>, n |-> JUndef, salt |-> << >>]

\* fields e, n, d and lastSalt of the instance
RSA_New == [e |-> RSA_e, n |-> 0, d |-> 0, lastSalt |-> NoSalt]

\* lines 31-39 with the fields of the instance left as they were when d
\* was assigned: this.d is not written
RSA_computeKeys_staleD(self, p, q) == [ok |-> TRUE, self |-> [self EXCEPT !.n = p * q]]

\* lines 31-39 of generateKeys for the primes p and q of the call: this.n,
\* phi and this.d; modInverse may throw after this.n was assigned
RSA_computeKeys(self, p, q) ==
  (CHOOSE res_ \in {
  IF d.ok THEN [ok |-> TRUE, self |-> [self EXCEPT !.n = p * q, !.d = d.v]]
  ELSE [ok |-> FALSE, self |-> [self EXCEPT !.n = p * q]]
  : d \in {RSA_modInverse(self.e, (p - 1) * (q - 1))}} : TRUE)

\* lines 41-52: the key pair, read from the fields of the instance
RSA_keyPair(self) ==
  [publicKey |-> [e |-> self.e, n |-> self.n], privateKey |-> [d |-> self.d, n |-> self.n]]

\* n.toString(2).length
RSA_getBitLength(n) == IF n = 0 THEN 1 ELSE IF n < 0 THEN 1 + BitLen(0 - n) ELSE BitLen(n)

\* RSA.sign(message, keys) for the random salt bytes rb
RSA_saltLength(n) ==
  (CHOOSE res_ \in {
  Min(SALT_LENGTH, Max(0, emLen - HASH_LENGTH - 2))
  : emLen \in {CeilDiv(RSA_getBitLength(n) - 1, 8)}} : TRUE)

RSA_sign(self, message, keys, rb) ==
  IF ~keys.defined \/ ~CanBigInt(keys.d) \/ ~CanBigInt(keys.n)
  THEN [status |-> "throw", self |-> self, sig |-> RSA_NoSig]
  ELSE
  (CHOOSE res_ \in {
  (CHOOSE res_ \in {
  (CHOOSE res_ \in {
  (CHOOSE res_ \in {
  (CHOOSE res_ \in {
  IF ~enc.ok
     THEN [status |-> "throw", self |-> [self EXCEPT !.lastSalt = Salt(rb)], sig |-> RSA_NoSig]
     ELSE
     (CHOOSE res_ \in {
     (CHOOSE res_ \in {
     [status |-> "ret",
         self |-> [self EXCEPT !.lastSalt = enc.lastSalt],
         sig |-> [defined |-> TRUE, signature |-> JNum(signature),
                  originalSignature |-> JNum(signature), messageHash |-> messageHash,
                  n |-> JNum(n), salt |-> bytesToHex(enc.lastSalt.v)]]
     : signature \in {RSA_modExp(encodedMessageBigInt, d, n)}} : TRUE)
     : encodedMessageBigInt \in {BytesToInt(hexToBytes(enc.v))}} : TRUE)
  : enc \in {RSA_emsa_pss_encode(messageHash, emBits, Salt(rb), << >>)}} : TRUE)
  : emBits \in {RSA_getBitLength(n) - 1}} : TRUE)
  : messageHash \in {sha256(message)}} : TRUE)
  : n \in {keys.n.v}} : TRUE)
  : d \in {keys.d.v}} : TRUE)

\* a length check that asks for room for the salt and two more bytes
RSA_keyTooShort_withSalt(emBits) == emBits < 8 * (HASH_LENGTH + SALT_LENGTH + 2)

\* the checks of RSA.verify: lines 131, 150, 157 and 163
RSA_keyTooShort(emBits) == emBits < HASH_LENGTH * 8 + 8

\* a range check that lets the signature n through
RSA_rangeOk_inclusive(sig, n) == ~(sig < 0 \/ sig > n)

RSA_rangeOk(sig, n) == ~(sig < 0 \/ sig >= n)

\* the fast path of lines 170-178
RSA_fastPath(self, signature, messageHash) ==
  /\ signature.messageHash = messageHash
  /\ \/ self.lastSalt.given /\ bytesToHex(self.lastSalt.v) = signature.salt
     \/ Len(signature.salt) > 0

RSA_verifyEnd(thrown, result, path) == [thrown |-> thrown, result |-> result, path |-> path]

\* the outer catch block: lines 197-200
RSA_verifyCatch(t) == [t EXCEPT !.thrown = FALSE, !.result = FALSE]

\* the body of the outer try block: lines 117-187
RSA_verifyTry(self, message, signature, keys) ==
  IF ~keys.defined \/ ~CanBigInt(keys.n) THEN RSA_verifyEnd(TRUE, FALSE, "keys")
  ELSE IF ~signature.defined \/ ~CanBigInt(signature.signature)
       THEN RSA_verifyEnd(FALSE, FALSE, "format")
  ELSE
  (CHOOSE res_ \in {
  (CHOOSE res_ \in {
  IF ~RSA_rangeOk(sig, n) THEN RSA_verifyEnd(FALSE, FALSE, "range")
     ELSE
     (CHOOSE res_ \in {
     (CHOOSE res_ \in {
     (CHOOSE res_ \in {
     (CHOOSE res_ \in {
     IF RSA_keyTooShort(emBits) THEN RSA_verifyEnd(FALSE, FALSE, "short")
        ELSE IF signature.n.t = "text" THEN RSA_verifyEnd(TRUE, FALSE, "modulus")
        ELSE IF signature.n.t = "num" /\ signature.n.v # n
             THEN RSA_verifyEnd(FALSE, FALSE, "modulus")
        ELSE IF signature.originalSignature.t # "undef"
                /\ signature.originalSignature # signature.signature
             THEN RSA_verifyEnd(FALSE, FALSE, "modified")
        ELSE IF RSA_fastPath(self, signature, messageHash)
             THEN RSA_verifyEnd(FALSE, TRUE, "fast")
        ELSE RSA_verifyEnd(FALSE,
               RSA_emsa_pss_verify(messageHash, ToHex(encodedMessage), emBits, usedSalt), "pss")
     : emBits \in {RSA_getBitLength(n) - 1}} : TRUE)
     : usedSalt \in {IF Len(signature.salt) > 0 THEN Salt(hexToBytes(signature.salt)) ELSE NoSalt}} : TRUE)
     : messageHash \in {sha256(message)}} : TRUE)
     : encodedMessage \in {RSA_modExp(sig, self.e, n)}} : TRUE)
  : sig \in {signature.signature.v}} : TRUE)
  : n \in {keys.n.v}} : TRUE)

RSA_verify(self, message, signature, keys) ==
  (CHOOSE res_ \in {
  IF t.thrown THEN RSA_verifyCatch(t) ELSE t
  : t \in {RSA_verifyTry(self, message, signature, keys)}} : TRUE)

(***************************************************************************)
(* ECDSA (src/algorithms/ECDSA.ts).  The curve is y^2 = x^3 + 7 over a     *)
(* small prime field, with a base point of prime order ECDSA_n; points     *)
(* are records [x, y] (affine) and [x, y, z] (Jacobian).                   *)
(***************************************************************************)
ECDSA_p == 349
ECDSA_a == 0
ECDSA_Gx == 2
ECDSA_Gy == 109
ECDSA_n == 313
windowSize == 4
\* window width fastShamirTrick asks computeWindowNAF and
\* precomputePointMultiples for
NAF_WIDTH == 5

ECDSA_G == [x |-> ECDSA_Gx, y |-> ECDSA_Gy]
ECDSA_Infinity == [x |-> 0, y |-> 1, z |-> 0]

ECDSA_affineToJacobian(P) ==
  IF P.x = 0 /\ P.y = 0 THEN ECDSA_Infinity ELSE [x |-> P.x, y |-> P.y, z |-> 1]

ECDSA_jacobianDouble(P) ==
  IF P.z = 0 THEN P
  ELSE IF P.y = 0 THEN ECDSA_Infinity
  ELSE (CHOOSE res_ \in {
       (CHOOSE res_ \in {
       (CHOOSE res_ \in {
       (CHOOSE res_ \in {
       (CHOOSE res_ \in {
       (CHOOSE res_ \in {
       (CHOOSE res_ \in {
       (CHOOSE res_ \in {
       (CHOOSE res_ \in {
       [x |-> IF x3 < 0 THEN x3 + ECDSA_p ELSE x3,
           y |-> IF y3 < 0 THEN y3 + ECDSA_p ELSE y3,
           z |-> z3]
       : z3 \in {(2 * P.y * P.z) % ECDSA_p}} : TRUE)
       : y3 \in {Rem(m * (s - x3) - 8 * yyyy, ECDSA_p)}} : TRUE)
       : x3 \in {Rem(m * m - 2 * s, ECDSA_p)}} : TRUE)
       : m \in {(3 * xx + ECDSA_a * zz * zz) % ECDSA_p}} : TRUE)
       : s \in {(4 * P.x * yy) % ECDSA_p}} : TRUE)
       : zz \in {(P.z * P.z) % ECDSA_p}} : TRUE)
       : yyyy \in {(yy * yy) % ECDSA_p}} : TRUE)
       : yy \in {(P.y * P.y) % ECDSA_p}} : TRUE)
       : xx \in {(P.x * P.x) % ECDSA_p}} : TRUE)

ECDSA_jacobianAdd(P, Q) ==
  IF P.z = 0 THEN Q
  ELSE IF Q.z = 0 THEN P
  ELSE (CHOOSE res_ \in {
       (CHOOSE res_ \in {
       (CHOOSE res_ \in {
       (CHOOSE res_ \in {
       (CHOOSE res_ \in {
       (CHOOSE res_ \in {
       (CHOOSE res_ \in {
       IF h = 0
          THEN IF Rem(s1 - s2, ECDSA_p) = 0 THEN ECDSA_jacobianDouble(P)
               ELSE ECDSA_Infinity
          ELSE (CHOOSE res_ \in {
               (CHOOSE res_ \in {
               (CHOOSE res_ \in {
               (CHOOSE res_ \in {
               (CHOOSE res_ \in {
               (CHOOSE res_ \in {
               [x |-> IF x3 < 0 THEN x3 + ECDSA_p ELSE x3,
                   y |-> IF y3 < 0 THEN y3 + ECDSA_p ELSE y3,
                   z |-> z3]
               : z3 \in {(P.z * Q.z * h) % ECDSA_p}} : TRUE)
               : y3 \in {Rem(r * (u1 * h2 - x3) - s1 * h3, ECDSA_p)}} : TRUE)
               : x3 \in {Rem(r * r - h3 - 2 * u1 * h2, ECDSA_p)}} : TRUE)
               : r \in {(s2 - s1) % ECDSA_p}} : TRUE)
               : h3 \in {(h2 * h) % ECDSA_p}} : TRUE)
               : h2 \in {(h * h) % ECDSA_p}} : TRUE)
       : h \in {(u2 - u1) % ECDSA_p}} : TRUE)
       : s2 \in {(Q.y * P.z * z1z1) % ECDSA_p}} : TRUE)
       : s1 \in {(P.y * Q.z * z2z2) % ECDSA_p}} : TRUE)
       : u2 \in {(Q.x * z1z1) % ECDSA_p}} : TRUE)
       : u1 \in {(P.x * z2z2) % ECDSA_p}} : TRUE)
       : z2z2 \in {(Q.z * Q.z) % ECDSA_p}} : TRUE)
       : z1z1 \in {(P.z * P.z) % ECDSA_p}} : TRUE)

\* ECDSA.modInverse: extended Euclid, throws when no inverse exists
ECDSA_modInverse(a0, m) ==
  (CHOOSE res_ \in {
  IF a = 0 THEN Throw
  ELSE (CHOOSE res_ \in {
       IF e[1] # 1 THEN Throw ELSE Ok((Rem(e[2], m) + m) % m)
       : e \in {EuclidLoop(a, m, 1, 0)}} : TRUE)
  : a \in {(Rem(a0, m) + m) % m}} : TRUE)

\* a cache key that leaves the value out
ECDSA_cacheKey_modulusOnly(a, m) == <<0, m>>

\* the key of an entry of modInverseCache: line 561
ECDSA_cacheKey(a, m) == <<a, m>>

\* getCachedModInverse; the result carries modInverseCache after the call
ECDSA_getCachedModInverse(cache, a, m) ==
  (CHOOSE res_ \in {
  IF cacheKey \in DOMAIN cache THEN [ok |-> TRUE, v |-> cache[cacheKey], c |-> cache]
  ELSE (CHOOSE res_ \in {
       IF ~result.ok THEN [ok |-> FALSE, v |-> 0, c |-> cache]
       ELSE [ok |-> TRUE, v |-> result.v, c |-> (cacheKey :> result.v) @@ cache]
       : result \in {ECDSA_modInverse(a, m)}} : TRUE)
  : cacheKey \in {ECDSA_cacheKey(a, m)}} : TRUE)

ECDSA_jacobianToAffine(cache, P) ==
  IF P.z = 0 THEN [ok |-> TRUE, v |-> [x |-> 0, y |-> 0], c |-> cache]
  ELSE (CHOOSE res_ \in {
       IF ~zInv.ok THEN [ok |-> FALSE, v |-> [x |-> 0, y |-> 0], c |-> zInv.c]
       ELSE (CHOOSE res_ \in {
            (CHOOSE res_ \in {
            [ok |-> TRUE,
                v |-> [x |-> (P.x * zInv2) % ECDSA_p, y |-> (P.y * zInv3) % ECDSA_p],
                c |-> zInv.c]
            : zInv3 \in {(zInv2 * zInv.v) % ECDSA_p}} : TRUE)
            : zInv2 \in {(zInv.v * zInv.v) % ECDSA_p}} : TRUE)
       : zInv \in {ECDSA_getCachedModInverse(cache, P.z, ECDSA_p)}} : TRUE)

\* precomputePoints: the table of the constructor, entry i at index i + 1
RECURSIVE ECDSA_precomputeFrom(_)
ECDSA_precomputeFrom(table) ==
  IF Len(table) >= Pow2(windowSize) THEN table
  ELSE ECDSA_precomputeFrom(
         Append(table, ECDSA_jacobianAdd(table[Len(table)], ECDSA_affineToJacobian(ECDSA_G))))

ECDSA_precomputedPoints ==
  ECDSA_precomputeFrom(<<ECDSA_Infinity, ECDSA_affineToJacobian(ECDSA_G)>>)

\* k.toString(2) as a sequence of bits, the most significant one first
RECURSIVE Bits(_)
Bits(k) == IF k < 2 THEN <<k>> ELSE Append(Bits(k \div 2), k % 2)

RECURSIVE ECDSA_doubleTimes(_, _)
ECDSA_doubleTimes(P, count) ==
  IF count = 0 THEN P ELSE ECDSA_doubleTimes(ECDSA_jacobianDouble(P), count - 1)

\* the window of lines 226-230: count bits read from index len-1-i on
RECURSIVE ECDSA_windowVal(_, _, _, _)
ECDSA_windowVal(kBits, i, count, windowVal) ==
  IF count = 0 THEN windowVal
  ELSE ECDSA_windowVal(kBits, i - 1, count - 1, 2 * windowVal + kBits[Len(kBits) - i])

\* the while loop of lines 216-237; state <<result, i, kBits>>
RECURSIVE ECDSA_windowLoop(_)
ECDSA_windowLoop(st) ==
  IF st[2] < 0 THEN st[1]
  ELSE (CHOOSE res_ \in {
       (CHOOSE res_ \in {
       (CHOOSE res_ \in {
       IF i < 0 THEN doubled
          ELSE (CHOOSE res_ \in {
               (CHOOSE res_ \in {
               ECDSA_windowLoop(
                    <<IF windowVal > 0
                      THEN ECDSA_jacobianAdd(doubled, ECDSA_precomputedPoints[windowVal + 1])
                      ELSE doubled,
                      i - count, st[3]>>)
               : windowVal \in {ECDSA_windowVal(st[3], i, count, 0)}} : TRUE)
               : count \in {Min(windowSize, i + 1)}} : TRUE)
       : i \in {st[2] - doubles}} : TRUE)
       : doubled \in {ECDSA_doubleTimes(st[1], doubles)}} : TRUE)
       : doubles \in {Min(windowSize, st[2] + 1)}} : TRUE)

\* pointMultiplyOptimized(this.G, k): the branch taken for the base point,
\* the only point generateKeys and sign pass
ECDSA_pointMultiplyOptimized(cache, k) ==
  IF k = 0 THEN [ok |-> TRUE, v |-> [x |-> 0, y |-> 0], c |-> cache]
  ELSE IF k = 1 THEN [ok |-> TRUE, v |-> ECDSA_G, c |-> cache]
  ELSE ECDSA_jacobianToAffine(cache,
         ECDSA_windowLoop(<<ECDSA_Infinity, Len(Bits(k)) - 1, Bits(k)>>))

\* the for loop of lines 242-250: a doubling for every bit of k, the most
\* significant one first, and an addition of P for a bit that is 1
RECURSIVE ECDSA_doubleAndAdd(_, _, _)
ECDSA_doubleAndAdd(result, P_jacobian, kBits) ==
  IF kBits = << >> THEN result
  ELSE ECDSA_doubleAndAdd(
         IF Head(kBits) = 1
         THEN ECDSA_jacobianAdd(ECDSA_jacobianDouble(result), P_jacobian)
         ELSE ECDSA_jacobianDouble(result),
         P_jacobian, Tail(kBits))

\* pointMultiplyOptimized(P, k) by the branch of lines 238-251, the
\* bit-by-bit double-and-add the method uses for a point other than G
ECDSA_pointMultiplyGeneric(cache, P, k) ==
  IF k = 0 THEN [ok |-> TRUE, v |-> [x |-> 0, y |-> 0], c |-> cache]
  ELSE IF k = 1 THEN [ok |-> TRUE, v |-> P, c |-> cache]
  ELSE ECDSA_jacobianToAffine(cache,
         ECDSA_doubleAndAdd(ECDSA_Infinity, ECDSA_affineToJacobian(P), Bits(k)))

\* hashToInt(hash, max) for a hash of hex digits
ECDSA_hashToInt(hash, max) ==
  (CHOOSE res_ \in {
  (CHOOSE res_ \in {
  (CHOOSE res_ \in {
  IF hashBits <= maxBits THEN BytesToInt(hexToBytes(hash)) % max
     ELSE BytesToInt(hexToBytes(SubSeq(hash, 1, prefixLen))) % max
  : prefixLen \in {(maxBits \div 4) + (IF maxBits % 4 # 0 THEN 1 ELSE 0)}} : TRUE)
  : hashBits \in {Len(hash) * 4}} : TRUE)
  : maxBits \in {BitLen(max)}} : TRUE)

ECDSA_bigintToUint8Array(value) ==
  IF value = 0 THEN <<0>> ELSE IntToBytesLen(value, CeilDiv(BitLen(value), 8))

\* HMAC-SHA-256 of the platform (crypto.subtle.sign), as the digest of the
\* key followed by the data
Hmac(key, data) == Digest(key \o data)

\* the do-while loop of lines 521-534; state <<k, v, iterations left>>
RECURSIVE ECDSA_kLoop(_)
ECDSA_kLoop(st) ==
  IF st[3] = 0 THEN [status |-> "hang", k |-> 0]
  ELSE (CHOOSE res_ \in {
       (CHOOSE res_ \in {
       IF kCandidate > 0 /\ kCandidate < ECDSA_n THEN [status |-> "ret", k |-> kCandidate]
          ELSE (CHOOSE res_ \in {
               ECDSA_kLoop(<<k, Hmac(k, v), st[3] - 1>>)
               : k \in {Hmac(st[1], v \o <<0>>)}} : TRUE)
       : kCandidate \in {BytesToInt(v) % ECDSA_n}} : TRUE)
       : v \in {Hmac(st[1], st[2])}} : TRUE)

ECDSA_generateDeterministicK(privateKey, messageHash) ==
  (CHOOSE res_ \in {
  (CHOOSE res_ \in {
  (CHOOSE res_ \in {
  (CHOOSE res_ \in {
  (CHOOSE res_ \in {
  (CHOOSE res_ \in {
  (CHOOSE res_ \in {
  (CHOOSE res_ \in {
  ECDSA_kLoop(<<k2, v2, MaxDrbgIter>>)
  : v2 \in {Hmac(k2, v1)}} : TRUE)
  : k2 \in {Hmac(k1, ((v1 \o <<1>>) \o dBytes) \o hBytes)}} : TRUE)
  : v1 \in {Hmac(k1, v0)}} : TRUE)
  : k1 \in {Hmac(k0, ((v0 \o <<0>>) \o dBytes) \o hBytes)}} : TRUE)
  : k0 \in {Fill(HASH_LENGTH, 0)}} : TRUE)
  : v0 \in {Fill(HASH_LENGTH, 1)}} : TRUE)
  : hBytes \in {ECDSA_bigintToUint8Array(messageHash)}} : TRUE)
  : dBytes \in {ECDSA_bigintToUint8Array(privateKey)}} : TRUE)

\* getRandomBigInt(min, max) for the random bytes rb
ECDSA_countBits(n) == IF n = 0 THEN 1 ELSE BitLen(n)
ECDSA_getRandomBigInt(min, max, rb) == min + (BytesToInt(rb) % ((max - min) + 1))

\* an INTEGER that is not given the leading zero byte
ECDSA_derInteger_noPad(v) ==
  (CHOOSE res_ \in {
  <<2, Len(bytes)>> \o bytes
  : bytes \in {ECDSA_bigintToUint8Array(v)}} : TRUE)

\* derEncode(r, s): the hex string of SEQUENCE { INTEGER r, INTEGER s }
ECDSA_derInteger(v) ==
  (CHOOSE res_ \in {
  (CHOOSE res_ \in {
  <<2, Len(padded)>> \o padded
  : padded \in {IF BitAnd(bytes[1], 128) # 0 THEN <<0>> \o bytes ELSE bytes}} : TRUE)
  : bytes \in {ECDSA_bigintToUint8Array(v)}} : TRUE)

\* an encoding with the two INTEGERs in the other order
ECDSA_derEncode_swapped(r, s) ==
  (CHOOSE res_ \in {
  (CHOOSE res_ \in {
  bytesToHex((<<48, Len(rDer) + Len(sDer)>> \o rDer) \o sDer)
  : sDer \in {ECDSA_derInteger(r)}} : TRUE)
  : rDer \in {ECDSA_derInteger(s)}} : TRUE)

ECDSA_derEncode(r, s) ==
  (CHOOSE res_ \in {
  (CHOOSE res_ \in {
  bytesToHex((<<48, Len(rDer) + Len(sDer)>> \o rDer) \o sDer)
  : sDer \in {ECDSA_derInteger(s)}} : TRUE)
  : rDer \in {ECDSA_derInteger(r)}} : TRUE)

\* one INTEGER of derDecode, read at index (0-based); a read past the end
\* gives undefined, which fails the tag test and which BigInt() throws on
ECDSA_derReadInteger(derBytes, index) ==
  LET B(i) == IF i < Len(derBytes) THEN derBytes[i + 1] ELSE -1 IN
  (CHOOSE res_ \in {
  (CHOOSE res_ \in {
  (CHOOSE res_ \in {
  IF B(index) # 2 THEN [ok |-> FALSE, v |-> 0, next |-> -1]
     ELSE IF length < 0 THEN [ok |-> TRUE, v |-> 0, next |-> -1]
     ELSE IF end > Len(derBytes) /\ start < end THEN [ok |-> FALSE, v |-> 0, next |-> -1]
     ELSE [ok |-> TRUE, v |-> BytesToInt(SubSeq(derBytes, start + 1, end)), next |-> end]
  : end \in {index + 2 + length}} : TRUE)
  : start \in {IF B(index + 2) = 0 /\ B(index + 3) >= 128 THEN index + 3 ELSE index + 2}} : TRUE)
  : length \in {B(index + 1)}} : TRUE)

ECDSA_derDecode(derHex) ==
  (CHOOSE res_ \in {
  IF Len(derHex) % 2 # 0 \/ Len(derBytes) = 0 \/ derBytes[1] # 48 THEN Throw
  ELSE (CHOOSE res_ \in {
       IF ~r.ok \/ r.next < 0 THEN Throw
       ELSE (CHOOSE res_ \in {
            IF ~s.ok THEN Throw ELSE Ok([r |-> r.v, s |-> s.v])
            : s \in {ECDSA_derReadInteger(derBytes, r.next)}} : TRUE)
       : r \in {ECDSA_derReadInteger(derBytes, 2)}} : TRUE)
  : derBytes \in {HexPairs(derHex)}} : TRUE)

\* computeWindowNAF(k, w): the digits, the least significant one first
RECURSIVE ECDSA_computeWindowNAF(_, _)
ECDSA_computeWindowNAF(k, w) ==
  IF k <= 0 THEN << >>
  ELSE IF k % 2 = 1
  THEN (CHOOSE res_ \in {
       (CHOOSE res_ \in {
       <<digit>> \o ECDSA_computeWindowNAF((k - digit) \div 2, w)
       : digit \in {IF remainder > Pow2(w) THEN remainder - Pow2(w + 1) ELSE remainder}} : TRUE)
       : remainder \in {k % Pow2(w + 1)}} : TRUE)
  ELSE <<0>> \o ECDSA_computeWindowNAF(k \div 2, w)

\* precomputePointMultiples(Q, w): entry j of the array at index j + 1; the
\* loop of lines 941-943 writes the entries i >> 1 for i = 3, 5, ...
RECURSIVE ECDSA_multiplesLoop(_, _, _, _)
ECDSA_multiplesLoop(precomp, Q2, i, numPoints) ==
  IF ~(i < numPoints) THEN precomp
  ELSE (CHOOSE res_ \in {
       (CHOOSE res_ \in {
       ECDSA_multiplesLoop(
            IF slot <= Len(precomp) THEN [precomp EXCEPT ![slot] = value]
            ELSE Append(precomp, value),
            Q2, i + 2, numPoints)
       : slot \in {(i \div 2) + 1}} : TRUE)
       : value \in {ECDSA_jacobianAdd(precomp[((i - 2) \div 2) + 1], Q2)}} : TRUE)

ECDSA_precomputePointMultiples(Q, w) ==
  ECDSA_multiplesLoop(<<ECDSA_Infinity, Q>>, ECDSA_jacobianDouble(Q), 3, Pow2(w - 1))

\* the point added for a digit: the table entry, negated for a negative digit
ECDSA_signedPoint(point, digit) ==
  IF digit > 0 THEN point ELSE [point EXCEPT !.y = (ECDSA_p - @) % ECDSA_p]

\* the loop of lines 846-884; state <<result, i>>.  An index past the end
\* of precompQ reads undefined, and point.x throws
RECURSIVE ECDSA_shamirLoop(_, _, _, _)
ECDSA_shamirLoop(st, wNAF1, wNAF2, precompQ) ==
  IF st[2] < 0 THEN Ok(st[1])
  ELSE (CHOOSE res_ \in {
       (CHOOSE res_ \in {
       (CHOOSE res_ \in {
       (CHOOSE res_ \in {
       (CHOOSE res_ \in {
       (CHOOSE res_ \in {
       (CHOOSE res_ \in {
       IF d2 # 0 /\ idx2 + 1 > Len(precompQ) THEN Throw
          ELSE ECDSA_shamirLoop(
                 <<IF d2 # 0
                   THEN ECDSA_jacobianAdd(afterG, ECDSA_signedPoint(precompQ[idx2 + 1], d2))
                   ELSE afterG,
                   i - 1>>, wNAF1, wNAF2, precompQ)
       : afterG \in {IF d1 # 0
                     THEN ECDSA_jacobianAdd(doubled,
                            ECDSA_signedPoint(ECDSA_precomputedPoints[idx1 + 1], d1))
                     ELSE doubled}} : TRUE)
       : idx2 \in {(IF d2 > 0 THEN d2 ELSE 0 - d2) \div 2}} : TRUE)
       : idx1 \in {(IF d1 > 0 THEN d1 ELSE 0 - d1) \div 2}} : TRUE)
       : d2 \in {IF i < Len(wNAF2) THEN wNAF2[i + 1] ELSE 0}} : TRUE)
       : d1 \in {IF i < Len(wNAF1) THEN wNAF1[i + 1] ELSE 0}} : TRUE)
       : doubled \in {ECDSA_jacobianDouble(st[1])}} : TRUE)
       : i \in {st[2]}} : TRUE)

ECDSA_fastShamirTrick(cache, u1, u2, Q) ==
  (CHOOSE res_ \in {
  (CHOOSE res_ \in {
  (CHOOSE res_ \in {
  (CHOOSE res_ \in {
  IF ~result.ok THEN [ok |-> FALSE, v |-> [x |-> 0, y |-> 0], c |-> cache]
     ELSE ECDSA_jacobianToAffine(cache, result.v)
  : result \in {ECDSA_shamirLoop(<<ECDSA_Infinity, Max(Len(wNAF1), Len(wNAF2)) - 1>>,
                                 wNAF1, wNAF2, precompQ)}} : TRUE)
  : precompQ \in {ECDSA_precomputePointMultiples(ECDSA_affineToJacobian(Q), NAF_WIDTH)}} : TRUE)
  : wNAF2 \in {ECDSA_computeWindowNAF(u2, NAF_WIDTH)}} : TRUE)
  : wNAF1 \in {ECDSA_computeWindowNAF(u1, NAF_WIDTH)}} : TRUE)

(***************************************************************************)
(* Key pairs and signature objects of ECDSA as the callers hold them.  The *)
(* fields x, y, d, r and s are hex strings: JNum(v) is a string of hex     *)
(* digits of value v (truthy also when v = 0), JText a string BigInt()     *)
(* fails on, JUndef a missing field.  signature and messageHash are hex    *)
(* strings, empty when absent.                                             *)
(***************************************************************************)
ECDSA_NoKeys == [defined |-> FALSE, x |-> JUndef, y |-> JUndef, d |-> JUndef]
ECDSA_NoSig == [defined |-> FALSE, signature |-> << >>, r |-> JUndef, s |-> JUndef,
                messageHash |-> << >>]
\* the signature the catch block of sign returns: lines 107-115
ECDSA_ZeroSig == [defined |-> TRUE, signature |-> << >>, r |-> JNum(0), s |-> JNum(0),
                  messageHash |-> << >>]

\* the instance: modInverseCache (precomputedPoints never changes)
ECDSA_New == [modInverseCache |-> EmptyCache]

(***************************************************************************)
(* ECDSA.sign.  A retry (r = 0 or s = 0) is a nested call of sign; the     *)
(* call is taken not to return when fuel nested calls were made.           *)
(***************************************************************************)
\* a field r or s of the result, value.toString(16).padStart(64, '0'), as
\* the number BigInt(`0x${field}`) of verify reads from it
ECDSA_HEX_WIDTH == 2 * CeilDiv(BitLen(ECDSA_n), 8)
ECDSA_hexField(value) ==
  JNum(BytesToInt(hexToBytes(PadStart(ToHex(value), ECDSA_HEX_WIDTH))))

RECURSIVE ECDSA_sign(_, _, _, _)
ECDSA_sign(self, message, keys, fuel) ==
  IF fuel = 0 THEN [status |-> "hang", self |-> self, k |-> 0, sig |-> ECDSA_NoSig]
  ELSE IF ~keys.defined \/ ~CanBigInt(keys.d)
  THEN [status |-> "ret", self |-> self, k |-> 0, sig |-> ECDSA_ZeroSig]
  ELSE
  (CHOOSE res_ \in {
  (CHOOSE res_ \in {
  (CHOOSE res_ \in {
  (CHOOSE res_ \in {
  IF kRes.status # "ret"
     THEN [status |-> "hang", self |-> self, k |-> 0, sig |-> ECDSA_NoSig]
     ELSE
     (CHOOSE res_ \in {
     (CHOOSE res_ \in {
     (CHOOSE res_ \in {
     IF ~kG.ok THEN [status |-> "ret", self |-> self1, k |-> k, sig |-> ECDSA_ZeroSig]
        ELSE
        (CHOOSE res_ \in {
        IF r = 0 THEN ECDSA_sign(self1, message, keys, fuel - 1)
        ELSE
        (CHOOSE res_ \in {
        (CHOOSE res_ \in {
        IF ~kInv.ok THEN [status |-> "ret", self |-> self2, k |-> k, sig |-> ECDSA_ZeroSig]
           ELSE
           (CHOOSE res_ \in {
           IF s = 0 THEN ECDSA_sign(self2, message, keys, fuel - 1)
           ELSE [status |-> "ret", self |-> self2, k |-> k,
                 sig |-> [defined |-> TRUE, signature |-> ECDSA_derEncode(r, s),
                          r |-> ECDSA_hexField(r), s |-> ECDSA_hexField(s),
                          messageHash |-> messageHash]]
           : s \in {(kInv.v * ((e + r * d) % ECDSA_n)) % ECDSA_n}} : TRUE)
        : self2 \in {[self1 EXCEPT !.modInverseCache = kInv.c]}} : TRUE)
        : kInv \in {ECDSA_getCachedModInverse(self1.modInverseCache, k, ECDSA_n)}} : TRUE)
        : r \in {kG.v.x % ECDSA_n}} : TRUE)
     : self1 \in {[self EXCEPT !.modInverseCache = kG.c]}} : TRUE)
     : kG \in {ECDSA_pointMultiplyOptimized(self.modInverseCache, k)}} : TRUE)
     : k \in {kRes.k}} : TRUE)
  : kRes \in {ECDSA_generateDeterministicK(d, e)}} : TRUE)
  : e \in {ECDSA_hashToInt(messageHash, ECDSA_n)}} : TRUE)
  : messageHash \in {sha256(message)}} : TRUE)
  : d \in {keys.d.v}} : TRUE)

(***************************************************************************)
(* ECDSA.verify.  work lists the modular inverse and the point             *)
(* multiplication the call computed, in order; parsed is <<r, s>> as the   *)
(* call read them from the signature object.                               *)
(***************************************************************************)
ECDSA_verifyEnd(thrown, result, cache, work, parsed) ==
  [thrown |-> thrown, result |-> result, cache |-> cache, work |-> work, parsed |-> parsed]

\* lines 129-139: r and s from the fields r and s, or from the DER string
ECDSA_parseSignature(signature) ==
  IF ~signature.defined THEN [status |-> "throw", r |-> 0, s |-> 0]
  ELSE IF signature.r.t # "undef" /\ signature.s.t # "undef"
  THEN IF CanBigInt(signature.r) /\ CanBigInt(signature.s)
       THEN [status |-> "ok", r |-> signature.r.v, s |-> signature.s.v]
       ELSE [status |-> "throw", r |-> 0, s |-> 0]
  ELSE IF Len(signature.signature) > 0
  THEN (CHOOSE res_ \in {
       IF decoded.ok THEN [status |-> "ok", r |-> decoded.v.r, s |-> decoded.v.s]
       ELSE [status |-> "throw", r |-> 0, s |-> 0]
       : decoded \in {ECDSA_derDecode(signature.signature)}} : TRUE)
  ELSE [status |-> "none", r |-> 0, s |-> 0]

\* the range check of lines 142-144
ECDSA_rangeOk(r, s) == ~(r <= 0 \/ r >= ECDSA_n \/ s <= 0 \/ s >= ECDSA_n)

\* the body of the try block: lines 123-165
ECDSA_verifyTry(self, message, signature, keys) ==
  (CHOOSE res_ \in {
  IF ~keys.defined \/ ~CanBigInt(keys.x) \/ ~CanBigInt(keys.y)
  THEN ECDSA_verifyEnd(TRUE, FALSE, c0, << >>, << >>)
  ELSE
  (CHOOSE res_ \in {
  (CHOOSE res_ \in {
  IF parse.status = "throw" THEN ECDSA_verifyEnd(TRUE, FALSE, c0, << >>, << >>)
     ELSE IF parse.status = "none" THEN ECDSA_verifyEnd(FALSE, FALSE, c0, << >>, << >>)
     ELSE
     (CHOOSE res_ \in {
     (CHOOSE res_ \in {
     IF ~ECDSA_rangeOk(r, s) THEN ECDSA_verifyEnd(FALSE, FALSE, c0, << >>, <<r, s>>)
        ELSE
        (CHOOSE res_ \in {
        IF ~w.ok THEN ECDSA_verifyEnd(TRUE, FALSE, w.c, <<"modInverse">>, <<r, s>>)
        ELSE
        (CHOOSE res_ \in {
        (CHOOSE res_ \in {
        (CHOOSE res_ \in {
        (CHOOSE res_ \in {
        IF ~P.ok
           THEN ECDSA_verifyEnd(TRUE, FALSE, P.c, <<"modInverse", "pointMultiply">>, <<r, s>>)
           ELSE ECDSA_verifyEnd(FALSE, (P.v.x % ECDSA_n) = r, P.c,
                                <<"modInverse", "pointMultiply">>, <<r, s>>)
        : P \in {ECDSA_fastShamirTrick(w.c, u1, u2, Q)}} : TRUE)
        : u2 \in {(r * w.v) % ECDSA_n}} : TRUE)
        : u1 \in {(e * w.v) % ECDSA_n}} : TRUE)
        : e \in {ECDSA_hashToInt(sha256(message), ECDSA_n)}} : TRUE)
        : w \in {ECDSA_getCachedModInverse(c0, s, ECDSA_n)}} : TRUE)
     : s \in {parse.s}} : TRUE)
     : r \in {parse.r}} : TRUE)
  : parse \in {ECDSA_parseSignature(signature)}} : TRUE)
  : Q \in {[x |-> keys.x.v, y |-> keys.y.v]}} : TRUE)
  : c0 \in {self.modInverseCache}} : TRUE)

\* a catch block that lets the exception through
ECDSA_verifyCatch_rethrow(t) == t

\* the catch block: lines 166-168
ECDSA_verifyCatch(t) == [t EXCEPT !.thrown = FALSE, !.result = FALSE]

ECDSA_verify(self, message, signature, keys) ==
  (CHOOSE res_ \in {
  IF t.thrown THEN ECDSA_verifyCatch(t) ELSE t
  : t \in {ECDSA_verifyTry(self, message, signature, keys)}} : TRUE)

(***************************************************************************)
(* State                                                                   *)
(***************************************************************************)
VARIABLES
  algorithm,  \* the algorithm AlgorithmFactory.getAlgorithm was asked for
  factory,    \* AlgorithmFactory: instances, and the last getAlgorithm call
  dsa,        \* the DSA instance: p, q, g, usedKValues, modExpCache
  dsaPc,      \* per caller: position of its generateKeys call, or "idle"
  dsaGen,     \* per caller: the q, p and g its generateParameters call was given
  dsaKeyGens, \* per caller: generateKeys calls made so far
  dsaRet,     \* per caller: what its last generateKeys call returned
  dsaKeys,    \* the key pair generateKeys returned last, given to sign and verify
  dsaSigs,    \* the sign calls made so far, with their results
  dsaOut,     \* the last verify call, with its result
  dsaSigning, \* per caller: position of its sign call, its arguments and locals
  dsaNonces,  \* the values generateDeterministicK returned on the instance, in order
  dsaOther,   \* another DSA instance, and the last verify call made on it
  rsa,        \* the RSA instance: n, d, lastSalt
  rsaPc,      \* per caller: position of its generateKeys call, or "idle"
  rsaGen,     \* per caller: the primes p and q of its generateKeys call
  rsaRet,     \* per caller: what its last generateKeys call returned
  rsaKeys,    \* the key pair generateKeys returned last, given to sign and verify
  rsaSig,     \* the last sign call, with its result, and the number of calls
  rsaOut,     \* the last verify call, with its result
  rsaSigning, \* per caller: position of its sign call, its arguments and result
  ecdsa,      \* the ECDSA instance: modInverseCache
  ecKeys,     \* the key pair the caller holds
  ecSig,      \* the last sign call, with its result, and the number of calls
  ecOut,      \* the last verify call, with its result
  ecForms,    \* the verify calls given one signature in its two forms
  ecDer,      \* a derEncode call and the derDecode call on its result
  inv,        \* the last modInverse call: the class, a, m and the result
  sampled,    \* the last call of a range sampler: the class, min, max and what it can return
  primality,  \* the last millerRabinTest call: the class, n, the bases and the result
  pss         \* the last EMSA-PSS encode / verify round trip: its inputs, EM, the hex
              \* string handed to emsa_pss_verify and the verdict

dsaVars == <<dsa, dsaPc, dsaGen, dsaKeyGens, dsaRet, dsaKeys, dsaSigs, dsaOut,
             dsaSigning, dsaNonces, dsaOther>>
rsaVars == <<rsa, rsaPc, rsaGen, rsaRet, rsaKeys, rsaSig, rsaOut, rsaSigning>>
ecdsaVars == <<ecdsa, ecKeys, ecSig, ecOut, ecForms, ecDer>>
helperVars == <<inv, primality, sampled, pss>>
vars == <<algorithm, factory, dsaVars, rsaVars, ecdsaVars, helperVars>>

DSA_NoOut == [called |-> FALSE, verifies |-> 0, message |-> << >>, signature |-> DSA_NoSig,
              keys |-> DSA_NoKeys, result |-> FALSE, thrown |-> FALSE, work |-> << >>]

ALGORITHMS == {"RSA", "DSA", "ECDSA"}

\* what the calls on the DSA instance leave alone
DSA_Others == <<algorithm, factory, rsaVars, ecdsaVars, helperVars>>
\* what the calls that are not interleaved leave alone
DSA_Rest == <<DSA_Others, dsaSigning, dsaNonces, dsaOther>>

\* the callers of generateKeys on the shared instance
RSA_CALLERS == {1, 2}
RSA_NoGen == [p |-> 0, q |-> 0]
\* attempts counts the pairs of primes the call computed keys from
RSA_NoRet == [status |-> "none", p |-> 0, q |-> 0, attempts |-> 0,
              pair |-> RSA_keyPair(RSA_New)]
RSA_Idle == \A c \in RSA_CALLERS : rsaPc[c] = "idle"
RSA_NoSign == [message |-> << >>, keys |-> RSA_NoKeys, status |-> "none", sig |-> RSA_NoSig,
               signs |-> 0]
RSA_NoOut == [called |-> FALSE, verifies |-> 0, message |-> << >>, signature |-> RSA_NoSig,
              keys |-> RSA_NoKeys, result |-> FALSE, thrown |-> FALSE, path |-> "none"]

RSA_NoSigning == [pc |-> "idle", message |-> << >>, keys |-> RSA_NoKeys, rb |-> << >>,
                  embedded |-> << >>, status |-> "none", sig |-> RSA_NoSig, signs |-> 0]

RSA_Init ==
  /\ rsa = RSA_New
  /\ rsaSigning = [c \in RSA_CALLERS |-> RSA_NoSigning]
  /\ rsaPc = [c \in RSA_CALLERS |-> "idle"]
  /\ rsaGen = [c \in RSA_CALLERS |-> RSA_NoGen]
  /\ rsaRet = [c \in RSA_CALLERS |-> RSA_NoRet]
  /\ rsaKeys = RSA_NoKeys
  /\ rsaSig = RSA_NoSign
  /\ rsaOut = RSA_NoOut

\* what the calls on the RSA instance leave alone
RSA_Others == <<algorithm, factory, dsaVars, ecdsaVars, helperVars>>
\* what the calls that are not interleaved leave alone
RSA_Rest == <<RSA_Others, rsaSigning>>

ECDSA_NoOut == [called |-> FALSE, verifies |-> 0, message |-> << >>, signature |-> ECDSA_NoSig,
                keys |-> ECDSA_NoKeys, result |-> FALSE, thrown |-> FALSE, work |-> << >>,
                parsed |-> << >>]

ECDSA_NoSign == [message |-> << >>, keys |-> ECDSA_NoKeys, status |-> "none", k |-> 0,
                 sig |-> ECDSA_NoSig, entries |-> 0, signs |-> 0]

ECDSA_NoForms == [called |-> FALSE, message |-> << >>, keys |-> ECDSA_NoKeys,
                  direct |-> FALSE, der |-> FALSE, parsedDirect |-> << >>,
                  parsedDer |-> << >>]

ECDSA_NoDer == [stage |-> "none", r |-> 0, s |-> 0, derHex |-> << >>, decoded |-> Throw]

\* the state after new ECDSA()
ECDSA_Init ==
  /\ ecdsa = ECDSA_New
  /\ ecKeys = ECDSA_NoKeys
  /\ ecSig = ECDSA_NoSign
  /\ ecOut = ECDSA_NoOut
  /\ ecForms = ECDSA_NoForms
  /\ ecDer = ECDSA_NoDer

\* what the calls on the ECDSA instance leave alone
ECDSA_Rest == <<algorithm, factory, dsaVars, rsaVars, helperVars>>

\* the callers of generateKeys on the shared instance
DSA_CALLERS == {1, 2}
DSA_NoGen == [q |-> 0, p |-> 0, g |-> 0]
DSA_NoRet == [status |-> "none", keys |-> DSA_NoKeys]
DSA_Idle == \A c \in DSA_CALLERS : dsaPc[c] = "idle"


(***************************************************************************)
(* AlgorithmFactory.  A name is the sequence of its character codes; an    *)
(* instance is an object of a class, told from other objects by id.        *)
(***************************************************************************)
\* the names getAlgorithm is called with
FACTORY_NAMES ==
  {<<82, 83, 65>>,   \* 'RSA'
   <<114, 115, 97>>,   \* 'rsa'
   <<82, 115, 97>>,   \* 'Rsa'
   <<68, 83, 65>>,   \* 'DSA'
   <<100, 115, 97>>,   \* 'dsa'
   <<69, 67, 68, 83, 65>>,   \* 'ECDSA'
   <<101, 99, 100, 115, 97>>,   \* 'ecdsa'
   <<85, 110, 115, 117, 112, 112, 111, 114, 116, 101, 100,
     65, 108, 103, 111, 114, 105, 116, 104, 109>>,   \* 'UnsupportedAlgorithm'
   <<82, 83>>,   \* 'RS'
   <<>>}   \* ''

\* the case labels of the switch: 'RSA', 'DSA', 'ECDSA'
FACTORY_CASES == {<<82, 83, 65>>, <<68, 83, 65>>, <<69, 67, 68, 83, 65>>}

\* String.prototype.toUpperCase on the letters a-z
toUpperCase(name) ==
  [i \in 1..Len(name) |-> IF name[i] \in 97..122 THEN name[i] - 32 ELSE name[i]]

Factory_Result(thrown, error, value, instances, created) ==
  [thrown |-> thrown, error |-> error, value |-> value, instances |-> instances,
   created |-> created]
Factory_NoObject == [class |-> << >>, id |-> 0]

\* getAlgorithm with no look at the instances it holds: a new object each call
AlgorithmFactory_getAlgorithm_alwaysNew(instances, created, name) ==
  (CHOOSE res_ \in {
  IF algorithmName \in FACTORY_CASES
  THEN Factory_Result(FALSE, << >>, [class |-> algorithmName, id |-> created + 1],
                      (algorithmName :> [class |-> algorithmName, id |-> created + 1])
                        @@ instances, created + 1)
  ELSE Factory_Result(TRUE, name, Factory_NoObject, instances, created)
  : algorithmName \in {toUpperCase(name)}} : TRUE)

\* AlgorithmFactory.getAlgorithm(name) on the instances held, created
\* counting the objects constructed so far; error is the name in the message
AlgorithmFactory_getAlgorithm(instances, created, name) ==
  (CHOOSE res_ \in {
  IF algorithmName \in DOMAIN instances
  THEN Factory_Result(FALSE, << >>, instances[algorithmName], instances, created)
  ELSE IF algorithmName \in FACTORY_CASES
  THEN Factory_Result(FALSE, << >>, [class |-> algorithmName, id |-> created + 1],
                      (algorithmName :> [class |-> algorithmName, id |-> created + 1])
                        @@ instances, created + 1)
  ELSE Factory_Result(TRUE, name, Factory_NoObject, instances, created)
  : algorithmName \in {toUpperCase(name)}} : TRUE)

Factory_NoCall == [called |-> FALSE, algorithm |-> << >>, thrown |-> FALSE, error |-> << >>,
                   value |-> Factory_NoObject, before |-> << >>]

\* the static field instances = {} and no call made
Factory_Init ==
  factory = [instances |-> << >>, created |-> 0, returned |-> << >>, last |-> Factory_NoCall]

\* a getAlgorithm call; returned keeps, for each name given, the objects the
\* calls with that name returned
AlgorithmFactory_getAlgorithm_call ==
  /\ \E name \in FACTORY_NAMES :
       \E res \in {AlgorithmFactory_getAlgorithm(factory.instances, factory.created,
                                                 name)} :
         factory' = [instances |-> res.instances,
                     created |-> res.created,
                     returned |->
                       IF res.thrown THEN factory.returned
                       ELSE (name :>
                               ((IF name \in DOMAIN factory.returned
                                 THEN factory.returned[name] ELSE {})
                                  \cup {res.value})) @@ factory.returned,
                     last |-> [called |-> TRUE, algorithm |-> name,
                               thrown |-> res.thrown, error |-> res.error,
                               value |-> res.value, before |-> factory.instances]]
  /\ UNCHANGED <<algorithm, dsaVars, rsaVars, ecdsaVars, helperVars>>

Factory_Next == AlgorithmFactory_getAlgorithm_call

(***************************************************************************)
(* calls of the private helpers of the three classes                       *)
(***************************************************************************)
\* largest modulus handed to modInverse
MaxModulus == 12
Inv_NoCall == [called |-> FALSE, class |-> "none", a |-> 0, m |-> 0, result |-> Throw]
\* largest number handed to millerRabinTest, and largest round count
MaxCandidate == 21
MaxRounds == 2
MR_NoCall == [called |-> FALSE, class |-> "none", n |-> 0, as |-> << >>, result |-> FALSE]
Sample_NoCall == [called |-> FALSE, class |-> "none", min |-> 0, max |-> 0, returns |-> {}]
\* largest emBits handed to emsa_pss_encode
MaxEmBits == 48
PSS_NoCall == [called |-> FALSE, mHash |-> << >>, salt |-> << >>, emBits |-> 0,
               encoded |-> FALSE, em |-> << >>, hex |-> << >>, result |-> FALSE]
Helper_Init ==
  /\ inv = Inv_NoCall
  /\ primality = MR_NoCall
  /\ sampled = Sample_NoCall
  /\ pss = PSS_NoCall

\* modInverse(a, m) of the class named
modInverse(class, a, m) ==
  CASE class = "RSA" -> RSA_modInverse(a, m)
    [] class = "DSA" -> DSA_modInverse(a, m)
    [] class = "ECDSA" -> ECDSA_modInverse(a, m)

modInverse_call(class) ==
  /\ ~inv.called
  /\ \E m \in 1..MaxModulus, a \in (0 - MaxModulus)..(2 * MaxModulus) :
       inv' = [called |-> TRUE, class |-> class, a |-> a, m |-> m,
               result |-> modInverse(class, a, m)]
  /\ UNCHANGED <<algorithm, factory, dsaVars, rsaVars, ecdsaVars, primality, sampled, pss>>

RSA_modInverse_call == modInverse_call("RSA")
DSA_modInverse_call == modInverse_call("DSA")
ECDSA_modInverse_call == modInverse_call("ECDSA")
ModInverse_Next == RSA_modInverse_call \/ DSA_modInverse_call \/ ECDSA_modInverse_call

\* the bases millerRabinTest(n, k) can draw in its k rounds
MR_Bases(n, k) == IF n > 3 THEN [1..k -> 2..(n - 2)] ELSE {<< >>}

\* RSA.millerRabinTest(n, k) with the bases as drawn by randomBigIntInRange
RSA_millerRabinTest_call ==
  /\ ~primality.called
  /\ \E n \in 0..MaxCandidate, k \in 1..MaxRounds :
       \E as \in MR_Bases(n, k) :
         primality' = [called |-> TRUE, class |-> "RSA", n |-> n, as |-> as,
                result |-> RSA_millerRabinTest(n, as)]
  /\ UNCHANGED <<algorithm, factory, dsaVars, rsaVars, ecdsaVars, inv, sampled, pss>>

\* DSA.millerRabinTest(n, k) on a new instance; getRandomBigInt(2, n - 2)
\* draws the base as[i] from the random byte as[i] - 2
DSA_millerRabinTest_call ==
  /\ ~primality.called
  /\ \E n \in 0..MaxCandidate, k \in 1..MaxRounds :
       \E as \in MR_Bases(n, k) :
         primality' = [called |-> TRUE, class |-> "DSA", n |-> n, as |-> as,
                result |-> DSA_millerRabinTest(EmptyCache, n,
                                               [i \in 1..Len(as) |-> <<as[i] - 2>>]).v]
  /\ UNCHANGED <<algorithm, factory, dsaVars, rsaVars, ecdsaVars, inv, sampled, pss>>

MillerRabin_Next == RSA_millerRabinTest_call \/ DSA_millerRabinTest_call

\* the values of a random byte, the lower ends of the ranges sampled and
\* their sizes max - min
ALL_BYTES == 0..255
SAMPLE_MINS == {0, 1, 2}
SAMPLE_SPANS == (0..20) \cup {127, 128, 200, 254}

\* the values the range sampler of a class can return for min..max, over
\* all outcomes of the random bytes
Sample_Returns(class, min, max) ==
  CASE class = "RSA" -> RSA_randomBigIntInRangeOver(ALL_BYTES, min, max)
    [] class = "DSA" ->
         {DSA_getRandomBigInt(min, max, rb) :
            rb \in BytesOver(ALL_BYTES, DSA_bytesNeeded(min, max))}
    [] class = "ECDSA" ->
         {ECDSA_getRandomBigInt(min, max, rb) :
            rb \in BytesOver(ALL_BYTES, CeilDiv(ECDSA_countBits(max - min), 8))}

Sample_call(class) ==
  /\ ~sampled.called
  /\ \E min \in SAMPLE_MINS, span \in SAMPLE_SPANS :
       sampled' = [called |-> TRUE, class |-> class, min |-> min, max |-> min + span,
                   returns |-> Sample_Returns(class, min, min + span)]
  /\ UNCHANGED <<algorithm, factory, dsaVars, rsaVars, ecdsaVars, inv, primality, pss>>

RSA_randomBigIntInRange_call == Sample_call("RSA")
DSA_getRandomBigInt_call == Sample_call("DSA")
ECDSA_getRandomBigInt_call == Sample_call("ECDSA")
Sample_Next ==
  RSA_randomBigIntInRange_call \/ DSA_getRandomBigInt_call \/ ECDSA_getRandomBigInt_call

\* bigint.toString(16) of the number that BigInt('0x' + hex) reads: the digits
\* without the leading zeros
RECURSIVE RSA_bigIntToString16(_)
RSA_bigIntToString16(hex) ==
  IF Len(hex) <= 1 THEN hex
  ELSE IF hex[1] = 0 THEN RSA_bigIntToString16(Tail(hex))
  ELSE hex

\* the digest bytes, the salt bytes and the salts of the round trip
PSS_DIGESTS == {hexToBytes(sha256(m)) : m \in MESSAGES} \cup {<<0>>, <<255>>}
PSS_SALT_BYTES == RAND_BYTES \cup {0, 1, 127, 128, 188, 255}
PSS_SALTS == {<< >>} \cup BytesOver(PSS_SALT_BYTES, SALT_LENGTH)

\* EM = emsa_pss_encode(mHash, emBits, salt); EM as a bigint; its toString(16)
\* handed to emsa_pss_verify(mHash, hex, emBits, null), as verify does with
\* encodedMessage
RSA_emsa_pss_roundTrip(mHash, salt, emBits) ==
  (CHOOSE res_ \in {
  IF ~enc.ok
  THEN [called |-> TRUE, mHash |-> mHash, salt |-> salt, emBits |-> emBits,
        encoded |-> FALSE, em |-> << >>, hex |-> << >>, result |-> FALSE]
  ELSE
  (CHOOSE res_ \in {
  [called |-> TRUE, mHash |-> mHash, salt |-> salt, emBits |-> emBits,
   encoded |-> TRUE, em |-> enc.v, hex |-> hex,
   result |-> RSA_emsa_pss_verify(bytesToHex(mHash), hex, emBits, NoSalt)]
  : hex \in {RSA_bigIntToString16(enc.v)}} : TRUE)
  : enc \in {RSA_emsa_pss_encode(bytesToHex(mHash), emBits, Salt(salt), << >>)}} : TRUE)

RSA_emsa_pss_roundTrip_call ==
  /\ ~pss.called
  /\ \E mHash \in PSS_DIGESTS, salt \in PSS_SALTS, emBits \in 1..MaxEmBits :
       pss' = RSA_emsa_pss_roundTrip(mHash, salt, emBits)
  /\ UNCHANGED <<algorithm, factory, dsaVars, rsaVars, ecdsaVars, inv, primality, sampled>>

PssRoundTrip_Next == RSA_emsa_pss_roundTrip_call

DSA_NoSigning == [pc |-> "idle", message |-> << >>, keys |-> DSA_NoKeys, messageHash |-> 0,
                  k |-> << >>, v |-> << >>, t |-> << >>, passes |-> 0, retries |-> 0,
                  status |-> "none", sig |-> DSA_NoSig, signs |-> 0]

DSA_Init ==
  /\ dsa = DSA_New
  /\ dsaSigning = [c \in DSA_CALLERS |-> DSA_NoSigning]
  /\ dsaNonces = << >>
  /\ dsaOther = [created |-> FALSE, self |-> DSA_New, out |-> DSA_NoOut]
  /\ dsaPc = [c \in DSA_CALLERS |-> "idle"]
  /\ dsaGen = [c \in DSA_CALLERS |-> DSA_NoGen]
  /\ dsaKeyGens = [c \in DSA_CALLERS |-> 0]
  /\ dsaRet = [c \in DSA_CALLERS |-> DSA_NoRet]
  /\ dsaKeys = DSA_NoKeys
  /\ dsaSigs = << >>
  /\ dsaOut = DSA_NoOut

(***************************************************************************)
(* DSA.generateKeys, one step per awaited call                             *)
(***************************************************************************)
\* the key pair with the public key of the next exponent, g^(x+1) mod p
DSA_makeKeys_nextExponent(self, rb) ==
  LET x == DSA_getRandomBigInt(1, self.q - 1, rb)
      y == DSA_modExp(self.modExpCache, self.g, x + 1, self.p)
  IN [self |-> [self EXCEPT !.modExpCache = y.c],
      keys |-> [defined |-> TRUE, p |-> JNum(self.p), q |-> JNum(self.q),
                g |-> JNum(self.g), y |-> JNum(y.v), x |-> JNum(x)]]

\* lines 331-348: the private key from the random bytes rb, the public
\* key, and the key pair read from the fields of the instance
DSA_makeKeys(self, rb) ==
  LET x == DSA_getRandomBigInt(1, self.q - 1, rb)
      y == DSA_modExp(self.modExpCache, self.g, x, self.p)
  IN [self |-> [self EXCEPT !.modExpCache = y.c],
      keys |-> [defined |-> TRUE, p |-> JNum(self.p), q |-> JNum(self.q),
                g |-> JNum(self.g), y |-> JNum(y.v), x |-> JNum(x)]]

\* lines 325-329: entry of generateKeys, for caller c; with the parameters
\* present the call awaits nothing and returns its key pair at once
DSA_generateKeys_call(c) ==
  /\ algorithm = "DSA"
  /\ dsaPc[c] = "idle"
  /\ dsaKeyGens[c] < MaxKeyGens
  /\ dsaKeyGens' = [dsaKeyGens EXCEPT ![c] = @ + 1]
  /\ dsaGen' = [dsaGen EXCEPT ![c] = DSA_NoGen]
  /\ IF dsa.p = 0 \/ dsa.q = 0 \/ dsa.g = 0
     THEN /\ dsaPc' = [dsaPc EXCEPT ![c] = "genQ"]
          /\ dsaRet' = [dsaRet EXCEPT ![c] = DSA_NoRet]
          /\ UNCHANGED <<dsa, dsaKeys>>
     ELSE /\ \E rb \in RandBytes(DSA_bytesNeeded(1, dsa.q - 1)) :
               \E res \in {DSA_makeKeys(dsa, rb)} :
                 /\ dsa' = res.self
                 /\ dsaKeys' = res.keys
                 /\ dsaRet' = [dsaRet EXCEPT ![c] = [status |-> "ret", keys |-> res.keys]]
          /\ UNCHANGED dsaPc
  /\ dsaOut' = DSA_NoOut
  /\ UNCHANGED dsaSigs
  /\ UNCHANGED DSA_Rest

\* lines 51-63: one candidate of generatePrime(Q_BITS); the prime found is
\* handed to generateParameters, which assigns it when it is resumed
DSA_generatePrime_try(c) ==
  /\ algorithm = "DSA"
  /\ dsaPc[c] = "genQ"
  /\ \E rb \in RandBytes(DSA_bytesNeeded(Pow2(Q_BITS - 1), Pow2(Q_BITS) - 1)) :
       LET candidate == DSA_getRandomOddBigInt(Q_BITS, rb) IN
       \E draws \in [1..MR_ROUNDS_Q -> RandBytes(DSA_bytesNeeded(2, candidate - 2))] :
         \E mr \in {DSA_millerRabinTest(dsa.modExpCache, candidate, draws)} :
         /\ dsa' = [dsa EXCEPT !.modExpCache = mr.c]
         /\ dsaGen' = [dsaGen EXCEPT ![c].q = IF mr.v THEN candidate ELSE @]
         /\ dsaPc' = [dsaPc EXCEPT ![c] = IF mr.v THEN "setQ" ELSE "genQ"]
  /\ UNCHANGED <<dsaKeyGens, dsaRet, dsaKeys, dsaSigs, dsaOut>>
  /\ UNCHANGED DSA_Rest

\* line 32, this.q = q, before the first candidate, and lines 91-112: one
\* candidate of generatePWithQ(q, P_BITS) for the q the call was given
DSA_generatePWithQ_try(c) ==
  /\ algorithm = "DSA"
  /\ dsaPc[c] \in {"setQ", "genP"}
  /\ LET self == IF dsaPc[c] = "setQ" THEN [dsa EXCEPT !.q = dsaGen[c].q] ELSE dsa
         q == dsaGen[c].q
         minN == (Pow2(P_BITS - 1) \div q) + 1
     IN \E rb \in RandBytes(DSA_bytesNeeded(minN, minN * 2)) :
          LET N == DSA_getRandomBigInt(minN, minN * 2, rb)
              p == N * q + 1
          IN IF DSA_getBitLength(p) < P_BITS
             THEN /\ dsa' = self
                  /\ dsaPc' = [dsaPc EXCEPT ![c] = "genP"]
                  /\ UNCHANGED dsaGen
             ELSE \E draws \in [1..MR_ROUNDS_P -> RandBytes(DSA_bytesNeeded(2, p - 2))] :
                    \E mr \in {DSA_millerRabinTest(self.modExpCache, p, draws)} :
                    /\ dsa' = [self EXCEPT !.modExpCache = mr.c]
                    /\ dsaGen' = [dsaGen EXCEPT ![c].p = IF mr.v THEN p ELSE @]
                    /\ dsaPc' = [dsaPc EXCEPT ![c] = IF mr.v THEN "setP" ELSE "genP"]
  /\ UNCHANGED <<dsaKeyGens, dsaRet, dsaKeys, dsaSigs, dsaOut>>
  /\ UNCHANGED DSA_Rest

\* lines 36-40: this.p = p, then calculateGenerator(this.p, this.q) with
\* the fields as they are when the call is resumed
DSA_calculateGenerator_step(c) ==
  /\ algorithm = "DSA"
  /\ dsaPc[c] = "setP"
  /\ \E g \in {DSA_calculateGenerator(dsa.modExpCache, dsaGen[c].p, dsa.q)} :
     /\ dsa' = [dsa EXCEPT !.modExpCache = g.c, !.p = dsaGen[c].p]
     /\ dsaGen' = [dsaGen EXCEPT ![c].g = IF g.ok THEN g.v ELSE @]
     /\ dsaPc' = [dsaPc EXCEPT ![c] = IF g.ok THEN "setG" ELSE "idle"]
     /\ dsaRet' = IF g.ok THEN dsaRet
                  ELSE [dsaRet EXCEPT ![c] = [status |-> "throw", keys |-> DSA_NoKeys]]
  /\ UNCHANGED <<dsaKeyGens, dsaKeys, dsaSigs, dsaOut>>
  /\ UNCHANGED DSA_Rest

\* lines 40-44: this.g = g and the return of generateParameters
DSA_generateParameters_return(c) ==
  /\ algorithm = "DSA"
  /\ dsaPc[c] = "setG"
  /\ dsa' = [dsa EXCEPT !.g = dsaGen[c].g]
  /\ dsaPc' = [dsaPc EXCEPT ![c] = "keys"]
  /\ UNCHANGED <<dsaGen, dsaKeyGens, dsaRet, dsaKeys, dsaSigs, dsaOut>>
  /\ UNCHANGED DSA_Rest

\* lines 331-348, after the await of generateParameters
DSA_generateKeys_return(c) ==
  /\ algorithm = "DSA"
  /\ dsaPc[c] = "keys"
  /\ \E rb \in RandBytes(DSA_bytesNeeded(1, dsa.q - 1)) :
       \E res \in {DSA_makeKeys(dsa, rb)} :
          /\ dsa' = res.self
          /\ dsaKeys' = res.keys
          /\ dsaRet' = [dsaRet EXCEPT ![c] = [status |-> "ret", keys |-> res.keys]]
  /\ dsaPc' = [dsaPc EXCEPT ![c] = "idle"]
  /\ UNCHANGED <<dsaGen, dsaKeyGens, dsaSigs, dsaOut>>
  /\ UNCHANGED DSA_Rest

(***************************************************************************)
(* sign and verify calls on the DSA instance                               *)
(***************************************************************************)
DSA_sign_call ==
  /\ algorithm = "DSA"
  /\ DSA_Idle
  /\ dsaKeys.defined
  /\ Len(dsaSigs) < MaxSigns
  /\ \E message \in MESSAGES :
       \E res \in {DSA_sign(dsa, message, dsaKeys, MaxRetry)} :
       /\ dsa' = res.self
       /\ dsaSigs' = Append(dsaSigs, [message |-> message, keys |-> dsaKeys,
                                      status |-> res.status, k |-> res.k, sig |-> res.sig])
  /\ dsaOut' = DSA_NoOut
  /\ UNCHANGED <<dsaPc, dsaGen, dsaKeyGens, dsaRet, dsaKeys>>
  /\ UNCHANGED DSA_Rest

\* signature objects a caller may pass to verify: the signatures sign
\* returned, the last one with r or s or an informational field replaced,
\* and objects BigInt() or the destructuring fails on
DSA_Returned == {dsaSigs[i].sig : i \in {j \in 1..Len(dsaSigs) : dsaSigs[j].status = "ret"}}
DSA_Tampered(sig, q) ==
  {[sig EXCEPT !.r = JNum(v)] : v \in {0, q, q + 1, sig.r.v + 1}}
    \cup {[sig EXCEPT !.s = JNum(v)] : v \in {0, q, q + 1, sig.s.v + 1}}
    \cup {[sig EXCEPT !.messageHash = << >>]}
DSA_Malformed ==
  {DSA_NoSig,
   [defined |-> TRUE, r |-> JText, s |-> JNum(1), messageHash |-> << >>],
   [defined |-> TRUE, r |-> JNum(1), s |-> JUndef, messageHash |-> << >>]}
DSA_Last == dsaSigs[Len(dsaSigs)]
DSA_HasLast == Len(dsaSigs) > 0 /\ DSA_Last.status = "ret"

\* key objects a caller may pass to verify besides its key pair
DSA_BadKeys == {DSA_NoKeys, [dsaKeys EXCEPT !.q = JText], [dsaKeys EXCEPT !.p = JNum(0)]}

\* the calls of verify that are made: <<message, signature, keys>>
DSA_VerifyInputs ==
  IF DSA_HasLast
  THEN {<<m, DSA_Last.sig, dsaKeys>> : m \in MESSAGES}
         \cup {<<DSA_Last.message, sig, dsaKeys>> :
                   sig \in DSA_Tampered(DSA_Last.sig, dsaKeys.q.v) \cup DSA_Malformed}
         \cup {<<DSA_Last.message, DSA_Last.sig, keys>> : keys \in DSA_BadKeys}
  ELSE {<<m, DSA_NoSig, keys>> : m \in {<< >>}, keys \in {dsaKeys, DSA_NoKeys}}

DSA_verify_call ==
  /\ algorithm = "DSA"
  /\ DSA_Idle
  /\ dsaOut.verifies < MaxVerifies
  /\ \E in \in DSA_VerifyInputs :
       \E res \in {DSA_verify(dsa, in[1], in[2], in[3])} :
          /\ dsa' = [dsa EXCEPT !.modExpCache = res.cache]
          /\ dsaOut' = [called |-> TRUE, verifies |-> dsaOut.verifies + 1,
                        message |-> in[1], signature |-> in[2],
                        keys |-> in[3], result |-> res.result, thrown |-> res.thrown,
                        work |-> res.work]
  /\ UNCHANGED <<dsaPc, dsaGen, dsaKeyGens, dsaRet, dsaKeys, dsaSigs>>
  /\ UNCHANGED DSA_Rest

\* the domain parameters generateParameters gives an instance
DSA_PARAMETERS == {[p |-> 1049, q |-> 131, g |-> 256], [p |-> 1097, q |-> 137, g |-> 256]}

\* new DSA(): another instance, left as the constructor made it or after a
\* generateKeys call of its own
DSA_other_new ==
  /\ algorithm = "DSA"
  /\ ~dsaOther.created
  /\ \E self \in {DSA_New} \cup {[DSA_New EXCEPT !.p = dp.p, !.q = dp.q, !.g = dp.g] :
                                     dp \in DSA_PARAMETERS} :
       dsaOther' = [created |-> TRUE, self |-> self, out |-> DSA_NoOut]
  /\ UNCHANGED <<dsa, dsaPc, dsaGen, dsaKeyGens, dsaRet, dsaKeys, dsaSigs, dsaOut,
                 dsaSigning, dsaNonces>>
  /\ UNCHANGED DSA_Others

\* verify(message, signature, keys) on the other instance, with a signature
\* and the key pair of the first
DSA_other_verify_call ==
  /\ dsaOther.created
  /\ DSA_Idle
  /\ DSA_HasLast
  /\ dsaOther.out.verifies < MaxVerifies
  /\ \E res \in {DSA_verify(dsaOther.self, DSA_Last.message, DSA_Last.sig, DSA_Last.keys)} :
       dsaOther' = [dsaOther EXCEPT
                      !.self.modExpCache = res.cache,
                      !.out = [called |-> TRUE, verifies |-> dsaOther.out.verifies + 1,
                               message |-> DSA_Last.message, signature |-> DSA_Last.sig,
                               keys |-> DSA_Last.keys, result |-> res.result,
                               thrown |-> res.thrown, work |-> res.work]]
  /\ UNCHANGED <<dsa, dsaPc, dsaGen, dsaKeyGens, dsaRet, dsaKeys, dsaSigs, dsaOut,
                 dsaSigning, dsaNonces>>
  /\ UNCHANGED DSA_Others

\* the steps of the generateKeys call of caller c
DSA_generateKeys_step(c) ==
  \/ DSA_generatePrime_try(c)
  \/ DSA_generatePWithQ_try(c)
  \/ DSA_calculateGenerator_step(c)
  \/ DSA_generateParameters_return(c)
  \/ DSA_generateKeys_return(c)

\* the calls of one caller, each completed before the next starts
DSA_Next ==
  \/ DSA_generateKeys_call(1)
  \/ DSA_generateKeys_step(1)
  \/ DSA_sign_call
  \/ DSA_verify_call

\* generateKeys and sign on one instance, verify on another
DSA_OtherNext ==
  \/ DSA_generateKeys_call(1)
  \/ DSA_generateKeys_step(1)
  \/ DSA_sign_call
  \/ DSA_other_new
  \/ DSA_other_verify_call

\* generateKeys calls of the callers, each completed before the next starts
DSA_SequentialNext ==
  \E c \in DSA_CALLERS :
    \/ DSA_Idle /\ DSA_generateKeys_call(c)
    \/ DSA_generateKeys_step(c)

\* the key pairs generateKeys calls returned
DSA_HeldKeys == {dsaRet[c].keys : c \in {d \in DSA_CALLERS : dsaRet[d].status = "ret"}}

\* sign(message, keys) of caller c up to the await of line 586
DSA_sign_start(c) ==
  /\ algorithm = "DSA"
  /\ dsaSigning[c].pc = "idle"
  /\ dsaSigning[c].signs < MaxOverlapSigns
  /\ \E message \in MESSAGES, keys \in DSA_HeldKeys :
       dsaSigning' = [dsaSigning EXCEPT ![c] =
                        [DSA_NoSigning EXCEPT
                           !.pc = IF DSA_signArgsThrow(keys) THEN "idle" ELSE "hashSHA256",
                           !.status = IF DSA_signArgsThrow(keys) THEN "throw" ELSE "none",
                           !.message = message, !.keys = keys,
                           !.signs = dsaSigning[c].signs + 1]]
  /\ UNCHANGED <<dsa, dsaPc, dsaGen, dsaKeyGens, dsaRet, dsaKeys, dsaSigs, dsaOut, dsaNonces,
               dsaOther>>
  /\ UNCHANGED DSA_Others

\* lines 586-589 and 360-408: hashSHA256 returns and generateDeterministicK
\* runs up to the first await of its loop
DSA_hashSHA256_return(c) ==
  /\ dsaSigning[c].pc = "hashSHA256"
  /\ \E messageHash \in {DSA_hashSHA256(dsa.q, dsaSigning[c].message)} :
       dsaSigning' = [dsaSigning EXCEPT ![c] =
         IF ~messageHash.ok THEN [@ EXCEPT !.pc = "idle", !.status = "throw"]
         ELSE (CHOOSE res_ \in {
              [@ EXCEPT !.pc = "generateDeterministicK", !.messageHash = messageHash.v,
                        !.k = seed.k, !.v = seed.v, !.t = seed.t, !.passes = 0]
              : seed \in {DSA_kSeed(dsaSigning[c].keys.x.v, messageHash.v)}} : TRUE)]
  /\ UNCHANGED <<dsa, dsaPc, dsaGen, dsaKeyGens, dsaRet, dsaKeys, dsaSigs, dsaOut, dsaNonces,
               dsaOther>>
  /\ UNCHANGED DSA_Others

\* one pass of the loop of generateDeterministicK; when it returns k, lines
\* 591-612 of sign follow up to the await of line 615 or to the call
\* this.sign(message, keys)
DSA_generateDeterministicK_pass(c) ==
  /\ dsaSigning[c].pc = "generateDeterministicK"
  /\ \E pass \in {DSA_kPass(dsa.q, dsa.usedKValues, dsaSigning[c].k, dsaSigning[c].v,
                             dsaSigning[c].t)} :
       CASE pass.status = "next" ->
              /\ dsaSigning' = [dsaSigning EXCEPT ![c] =
                    IF dsaSigning[c].passes + 1 >= MaxDrbgIter
                    THEN [@ EXCEPT !.pc = "hang"]
                    ELSE [@ EXCEPT !.k = pass.k, !.v = pass.v, !.t = pass.t,
                                   !.passes = @ + 1]]
              /\ UNCHANGED <<dsa, dsaNonces>>
         [] pass.status = "throw" ->
              /\ dsaSigning' = [dsaSigning EXCEPT ![c] =
                                  [@ EXCEPT !.pc = "idle", !.status = "throw"]]
              /\ UNCHANGED <<dsa, dsaNonces>>
         [] pass.status = "ret" ->
              \E res \in {DSA_signWithK([dsa EXCEPT !.usedKValues = pass.used],
                                         dsaSigning[c].message, dsaSigning[c].keys,
                                         dsaSigning[c].messageHash, pass.nonce)} :
                /\ dsa' = res.self
                /\ dsaNonces' = Append(dsaNonces,
                                       [k |-> pass.nonce, q |-> dsa.q,
                                        absent |-> pass.nonce \notin dsa.usedKValues,
                                        added |-> pass.nonce \in res.self.usedKValues])
                /\ dsaSigning' = [dsaSigning EXCEPT ![c] =
                      CASE res.status = "ret" ->
                             [@ EXCEPT !.pc = "getFullSHA256", !.sig = res.sig]
                        [] res.status = "retry" ->
                             IF dsaSigning[c].retries + 1 >= MaxRetry
                             THEN [@ EXCEPT !.pc = "hang"]
                             ELSE [@ EXCEPT !.pc = "hashSHA256", !.retries = @ + 1]
                        [] OTHER -> [@ EXCEPT !.pc = "idle", !.status = "throw"]]
  /\ UNCHANGED <<dsaPc, dsaGen, dsaKeyGens, dsaRet, dsaKeys, dsaSigs, dsaOut, dsaOther>>
  /\ UNCHANGED DSA_Others

\* lines 615-624: the result of sign
DSA_sign_return(c) ==
  /\ dsaSigning[c].pc = "getFullSHA256"
  /\ dsaSigning' = [dsaSigning EXCEPT ![c] = [@ EXCEPT !.pc = "idle", !.status = "ret"]]
  /\ UNCHANGED <<dsa, dsaPc, dsaGen, dsaKeyGens, dsaRet, dsaKeys, dsaSigs, dsaOut, dsaNonces,
               dsaOther>>
  /\ UNCHANGED DSA_Others

\* sign calls of the callers on the instance, interleaved at their awaits,
\* with the key pairs generateKeys calls returned before
DSA_SignOverlapNext ==
  \/ /\ \A c \in DSA_CALLERS : dsaSigning[c] = DSA_NoSigning
     /\ DSA_SequentialNext
  \/ \E c \in DSA_CALLERS :
       \/ DSA_sign_start(c)
       \/ DSA_hashSHA256_return(c)
       \/ DSA_generateDeterministicK_pass(c)
       \/ DSA_sign_return(c)

\* generateKeys calls of the callers, interleaved at their awaits
DSA_OverlapNext ==
  \E c \in DSA_CALLERS :
    \/ DSA_generateKeys_call(c)
    \/ DSA_generateKeys_step(c)

(***************************************************************************)
(* RSA.generateKeys, one step per awaited call                             *)
(***************************************************************************)
\* line 23: entry of generateKeys, for caller c
RSA_generateKeys_call(c) ==
  /\ algorithm = "RSA"
  /\ rsaPc[c] = "idle"
  /\ rsaPc' = [rsaPc EXCEPT ![c] = "genP"]
  /\ rsaGen' = [rsaGen EXCEPT ![c] = RSA_NoGen]
  /\ rsaRet' = [rsaRet EXCEPT ![c] = RSA_NoRet]
  /\ rsaOut' = RSA_NoOut
  /\ UNCHANGED <<rsa, rsaKeys, rsaSig>>
  /\ UNCHANGED RSA_Rest

\* lines 539-549: one candidate of generateLargePrime, for p and then for q;
\* the call stays in randomBigIntInRange when no draw is below the range
RSA_generateLargePrime_try(c) ==
  /\ algorithm = "RSA"
  /\ rsaPc[c] \in {"genP", "genQ"}
  /\ \E rb \in RandBytes(CeilDiv(RSA_PRIME_BITS, 8)) :
       \E candidate \in {RSA_generateRandomBigInt(rb)} :
       \E bases \in {RSA_randomBigIntInRange(2, candidate - 2)} :
          IF bases = {}
          THEN rsaPc' = [rsaPc EXCEPT ![c] = "hang"] /\ UNCHANGED rsaGen
          ELSE \E as \in [1..RSA_MR_ROUNDS -> bases] :
                 IF RSA_millerRabinTest(candidate, as)
                 THEN /\ rsaGen' = IF rsaPc[c] = "genP"
                                   THEN [rsaGen EXCEPT ![c].p = candidate]
                                   ELSE [rsaGen EXCEPT ![c].q = candidate]
                      /\ rsaPc' = [rsaPc EXCEPT ![c] = IF @ = "genP" THEN "genQ" ELSE "keys"]
                 ELSE UNCHANGED <<rsaPc, rsaGen>>
  /\ UNCHANGED <<rsa, rsaRet, rsaKeys, rsaSig, rsaOut>>
  /\ UNCHANGED RSA_Rest

\* lines 31-52, which no await interrupts: n, phi(n), d and the key pair;
\* the catch block of lines 53-56 throws when modInverse threw
RSA_generateKeys_return(c) ==
  /\ algorithm = "RSA"
  /\ rsaPc[c] = "keys"
  /\ \E res \in {RSA_computeKeys(rsa, rsaGen[c].p, rsaGen[c].q)} :
       /\ rsa' = res.self
       /\ IF res.ok
          THEN /\ rsaRet' = [rsaRet EXCEPT ![c] = [status |-> "ret", p |-> rsaGen[c].p,
                                                   q |-> rsaGen[c].q, attempts |-> 1,
                                                   pair |-> RSA_keyPair(res.self)]]
               /\ rsaKeys' = [defined |-> TRUE, n |-> JNum(res.self.n),
                              d |-> JNum(res.self.d)]
          ELSE /\ rsaRet' = [rsaRet EXCEPT ![c] = [RSA_NoRet EXCEPT !.status = "throw",
                                                             !.p = rsaGen[c].p,
                                                             !.q = rsaGen[c].q,
                                                             !.attempts = 1]]
               /\ UNCHANGED rsaKeys
  /\ rsaPc' = [rsaPc EXCEPT ![c] = "idle"]
  /\ UNCHANGED <<rsaGen, rsaSig, rsaOut>>
  /\ UNCHANGED RSA_Rest

(***************************************************************************)
(* sign and verify calls on the RSA instance                               *)
(***************************************************************************)
RSA_sign_call ==
  /\ algorithm = "RSA"
  /\ RSA_Idle
  /\ rsaKeys.defined
  /\ rsaSig.signs < MaxSigns
  /\ \E message \in MESSAGES, rb \in RandBytes(RSA_saltLength(rsaKeys.n.v)) :
       \E res \in {RSA_sign(rsa, message, rsaKeys, rb)} :
       /\ rsa' = res.self
       /\ rsaSig' = [message |-> message, keys |-> rsaKeys,
                     status |-> res.status, sig |-> res.sig,
                     signs |-> rsaSig.signs + 1]
  /\ rsaOut' = RSA_NoOut
  /\ UNCHANGED <<rsaPc, rsaGen, rsaRet, rsaKeys>>
  /\ UNCHANGED RSA_Rest

\* signature objects a caller may pass to verify besides the one sign
\* returned: the signature integer replaced (with the field
\* originalSignature dropped, adjusted or left), informational fields
\* replaced or dropped, an object built without the private key, and
\* objects BigInt() fails on
RSA_Tampered(sig, n) ==
  UNION {{[sig EXCEPT !.signature = JNum(v), !.originalSignature = o] :
            o \in {JUndef, JNum(v)}} : v \in {-1, 1, n, n + 1}}
    \cup {[sig EXCEPT !.signature = JNum(1)],
          [sig EXCEPT !.messageHash = << >>], [sig EXCEPT !.salt = << >>],
          [sig EXCEPT !.messageHash = << >>, !.salt = << >>],
          [sig EXCEPT !.n = JNum(n + 2)], [sig EXCEPT !.n = JText]}
RSA_Forgery(message, v) ==
  [defined |-> TRUE, signature |-> JNum(v), originalSignature |-> JUndef,
   messageHash |-> sha256(message), n |-> JUndef, salt |-> <<0, 1>>]
RSA_Malformed ==
  {RSA_NoSig, [RSA_NoSig EXCEPT !.defined = TRUE],
   [RSA_NoSig EXCEPT !.defined = TRUE, !.signature = JText]}
RSA_BadKeys == {RSA_NoKeys, [rsaKeys EXCEPT !.n = JText], [rsaKeys EXCEPT !.n = JNum(0)]}

\* the calls of verify that are made: <<message, signature, keys>>
RSA_VerifyInputs ==
  IF rsaSig.status = "ret"
  THEN {<<m, rsaSig.sig, rsaKeys>> : m \in MESSAGES}
         \cup {<<rsaSig.message, sig, rsaKeys>> :
                   sig \in RSA_Tampered(rsaSig.sig, rsaKeys.n.v) \cup RSA_Malformed}
         \cup {<<rsaSig.message, rsaSig.sig, keys>> : keys \in RSA_BadKeys}
  ELSE {<<m, sig, keys>> : m \in {<< >>}, sig \in {RSA_NoSig, RSA_Forgery(<< >>, 1)},
                           keys \in {rsaKeys, RSA_NoKeys}}

RSA_verify_call ==
  /\ algorithm = "RSA"
  /\ RSA_Idle
  /\ rsaOut.verifies < MaxVerifies
  /\ \E in \in RSA_VerifyInputs :
       \E res \in {RSA_verify(rsa, in[1], in[2], in[3])} :
       rsaOut' = [called |-> TRUE, verifies |-> rsaOut.verifies + 1,
                  message |-> in[1], signature |-> in[2], keys |-> in[3],
                  result |-> res.result, thrown |-> res.thrown, path |-> res.path]
  /\ UNCHANGED <<rsa, rsaPc, rsaGen, rsaRet, rsaKeys, rsaSig>>
  /\ UNCHANGED RSA_Rest

\* the calls of one caller, each completed before the next starts
RSA_Next ==
  \/ RSA_generateKeys_call(1)
  \/ RSA_generateLargePrime_try(1)
  \/ RSA_generateKeys_return(1)
  \/ RSA_sign_call
  \/ RSA_verify_call

\* sign(message, keys) of caller c up to the await of line 72
RSA_sign_start(c) ==
  /\ algorithm = "RSA"
  /\ rsaSigning[c].pc = "idle"
  /\ rsaKeys.defined
  /\ rsaSigning[c].signs < MaxOverlapSigns
  /\ \E message \in MESSAGES, rb \in RandBytes(RSA_saltLength(rsaKeys.n.v)) :
       rsaSigning' = [rsaSigning EXCEPT ![c] =
                        [RSA_NoSigning EXCEPT !.pc = "sha256", !.message = message,
                                              !.keys = rsaKeys, !.rb = rb,
                                              !.signs = rsaSigning[c].signs + 1]]
  /\ UNCHANGED <<rsa, rsaPc, rsaGen, rsaRet, rsaKeys, rsaSig, rsaOut>>
  /\ UNCHANGED RSA_Others

\* the emsa_pss_encode call of the sign call of caller c
RSA_sign_encode(c) ==
  RSA_emsa_pss_encode(sha256(rsaSigning[c].message),
                      RSA_getBitLength(rsaSigning[c].keys.n.v) - 1,
                      Salt(rsaSigning[c].rb), << >>)

\* lines 72-87 and 210-240: the random salt is stored in this.lastSalt and
\* emsa_pss_encode is entered, up to its await of line 240
RSA_sign_storeSalt(c) ==
  /\ rsaSigning[c].pc = "sha256"
  /\ rsa' = [rsa EXCEPT !.lastSalt = Salt(rsaSigning[c].rb)]
  /\ rsaSigning' = [rsaSigning EXCEPT ![c] =
                      IF ~RSA_sign_encode(c).ok
                      THEN [@ EXCEPT !.pc = "idle", !.status = "throw"]
                      ELSE [@ EXCEPT !.pc = "encode"]]
  /\ UNCHANGED <<rsaPc, rsaGen, rsaRet, rsaKeys, rsaSig, rsaOut>>
  /\ UNCHANGED RSA_Others

\* lines 240-274 of emsa_pss_encode: the salt that is embedded is stored in
\* this.lastSalt, up to the await of line 274
RSA_emsa_pss_encode_storeSalt(c) ==
  /\ rsaSigning[c].pc = "encode"
  /\ \E enc \in {RSA_sign_encode(c)} :
       /\ rsa' = [rsa EXCEPT !.lastSalt = enc.lastSalt]
       /\ rsaSigning' = [rsaSigning EXCEPT ![c] =
                           [@ EXCEPT !.pc = "hash", !.embedded = enc.lastSalt.v]]
  /\ UNCHANGED <<rsaPc, rsaGen, rsaRet, rsaKeys, rsaSig, rsaOut>>
  /\ UNCHANGED RSA_Others

\* lines 274-341 and 87-101: the encoded message is signed and the result
\* is built with the salt this.lastSalt holds then
RSA_sign_return(c) ==
  /\ rsaSigning[c].pc = "hash"
  /\ \E res \in {RSA_sign(rsa, rsaSigning[c].message, rsaSigning[c].keys,
                           rsaSigning[c].rb)} :
       rsaSigning' = [rsaSigning EXCEPT ![c] =
                        [@ EXCEPT !.pc = "idle", !.status = "ret",
                                  !.sig = [res.sig EXCEPT
                                             !.salt = bytesToHex(rsa.lastSalt.v)]]]
  /\ UNCHANGED <<rsa, rsaPc, rsaGen, rsaRet, rsaKeys, rsaSig, rsaOut>>
  /\ UNCHANGED RSA_Others

RSA_generateKeys_step(c) ==
  \/ RSA_generateKeys_call(c)
  \/ RSA_generateLargePrime_try(c)
  \/ RSA_generateKeys_return(c)

\* sign calls of the callers on the instance, interleaved at their awaits,
\* with the keys a generateKeys call returned before
RSA_SignOverlapNext ==
  \/ /\ \A c \in RSA_CALLERS : rsaSigning[c] = RSA_NoSigning
     /\ RSA_generateKeys_step(1)
  \/ \E c \in RSA_CALLERS :
       \/ RSA_sign_start(c)
       \/ RSA_sign_storeSalt(c)
       \/ RSA_emsa_pss_encode_storeSalt(c)
       \/ RSA_sign_return(c)

\* generateKeys calls of the callers, interleaved at their awaits
RSA_OverlapNext ==
  \E c \in RSA_CALLERS :
    \/ RSA_generateKeys_call(c)
    \/ RSA_generateLargePrime_try(c)
    \/ RSA_generateKeys_return(c)

(***************************************************************************)
(* Calls on the ECDSA instance                                             *)
(***************************************************************************)
\* lines 40-59: generateKeys, called once by the holder of the instance
ECDSA_generateKeys_call ==
  /\ algorithm = "ECDSA"
  /\ ~ecKeys.defined
  /\ \E rb \in RandBytes(CeilDiv(ECDSA_countBits(ECDSA_n - 2), 8)) :
       \E privateKey \in {ECDSA_getRandomBigInt(1, ECDSA_n - 1, rb)} :
       \E publicKey \in {ECDSA_pointMultiplyOptimized(ecdsa.modInverseCache, privateKey)} :
       /\ ecdsa' = [ecdsa EXCEPT !.modInverseCache = publicKey.c]
       /\ ecKeys' = [defined |-> TRUE, x |-> JNum(publicKey.v.x), y |-> JNum(publicKey.v.y),
                     d |-> JNum(privateKey)]
  /\ ecOut' = ECDSA_NoOut
  /\ UNCHANGED <<ecSig, ecForms, ecDer>>
  /\ UNCHANGED ECDSA_Rest

\* key objects a caller may pass to sign: its key pair, and the pair with a
\* private key BigInt() fails on (line 67)
ECDSA_SignKeys == {ecKeys, [ecKeys EXCEPT !.d = JText]}

\* a sign call; entries is the size of modInverseCache when the call is made
ECDSA_sign_call ==
  /\ algorithm = "ECDSA"
  /\ ecKeys.defined
  /\ ecSig.signs < MaxSigns
  /\ \E message \in MESSAGES, keys \in ECDSA_SignKeys :
       \E res \in {ECDSA_sign(ecdsa, message, keys, MaxRetry)} :
       /\ ecdsa' = res.self
       /\ ecSig' = [message |-> message, keys |-> keys, status |-> res.status,
                    k |-> res.k, sig |-> res.sig,
                    entries |-> Cardinality(DOMAIN ecdsa.modInverseCache),
                    signs |-> ecSig.signs + 1]
  /\ ecOut' = ECDSA_NoOut
  /\ UNCHANGED <<ecKeys, ecForms, ecDer>>
  /\ UNCHANGED ECDSA_Rest

\* private keys of key pairs the caller holds that this instance did not
\* generate
ECDSA_IMPORTED_KEYS == {4, 7}

\* a sign call with a key pair generated elsewhere
ECDSA_sign_imported_call ==
  /\ algorithm = "ECDSA"
  /\ ecSig.signs < MaxSigns
  /\ \E message \in MESSAGES, d \in ECDSA_IMPORTED_KEYS :
       \E publicKey \in {ECDSA_pointMultiplyOptimized(EmptyCache, d)} :
       \E keys \in {[defined |-> TRUE, x |-> JNum(publicKey.v.x),
                      y |-> JNum(publicKey.v.y), d |-> JNum(d)]} :
       \E res \in {ECDSA_sign(ecdsa, message, keys, MaxRetry)} :
       /\ ecdsa' = res.self
       /\ ecSig' = [message |-> message, keys |-> keys, status |-> res.status,
                    k |-> res.k, sig |-> res.sig,
                    entries |-> Cardinality(DOMAIN ecdsa.modInverseCache),
                    signs |-> ecSig.signs + 1]
  /\ ecOut' = ECDSA_NoOut
  /\ UNCHANGED <<ecKeys, ecForms, ecDer>>
  /\ UNCHANGED ECDSA_Rest

\* signature objects a caller may pass to verify besides the one sign
\* returned: r or s replaced, the field messageHash dropped, the DER string
\* alone (whole, or cut short), and objects the parsing fails on
ECDSA_Tampered(sig) ==
  {[sig EXCEPT !.r = JNum(v)] : v \in {0, ECDSA_n, ECDSA_n + 1, sig.r.v + 1}}
    \cup {[sig EXCEPT !.s = JNum(v)] : v \in {0, ECDSA_n, ECDSA_n + 1, sig.s.v + 1}}
    \cup {[sig EXCEPT !.messageHash = << >>],
          [sig EXCEPT !.r = JUndef, !.s = JUndef],
          [sig EXCEPT !.r = JUndef, !.s = JUndef,
                      !.signature = SubSeq(@, 1, Len(@) - 2)]}
ECDSA_Malformed ==
  {ECDSA_NoSig, [ECDSA_NoSig EXCEPT !.defined = TRUE],
   [ECDSA_NoSig EXCEPT !.defined = TRUE, !.r = JText, !.s = JNum(1)],
   [ECDSA_NoSig EXCEPT !.defined = TRUE, !.signature = <<0, 0>>]}

\* key objects a caller may pass to verify besides its key pair
ECDSA_BadKeys == {ECDSA_NoKeys, [ecKeys EXCEPT !.x = JText]}

\* the calls of verify that are made: <<message, signature, keys>>
ECDSA_VerifyInputs ==
  IF ecSig.status = "ret"
  THEN {<<m, ecSig.sig, ecKeys>> : m \in MESSAGES}
         \cup {<<ecSig.message, sig, ecKeys>> :
                   sig \in ECDSA_Tampered(ecSig.sig) \cup ECDSA_Malformed}
         \cup {<<ecSig.message, ecSig.sig, keys>> : keys \in ECDSA_BadKeys}
  ELSE {<<m, ECDSA_NoSig, keys>> : m \in {<< >>}, keys \in {ecKeys, ECDSA_NoKeys}}

ECDSA_verify_call ==
  /\ algorithm = "ECDSA"
  /\ ecOut.verifies < MaxVerifies
  /\ \E in \in ECDSA_VerifyInputs :
       \E res \in {ECDSA_verify(ecdsa, in[1], in[2], in[3])} :
          /\ ecdsa' = [ecdsa EXCEPT !.modInverseCache = res.cache]
          /\ ecOut' = [called |-> TRUE, verifies |-> ecOut.verifies + 1,
                       message |-> in[1], signature |-> in[2],
                       keys |-> in[3], result |-> res.result, thrown |-> res.thrown,
                       work |-> res.work, parsed |-> res.parsed]
  /\ UNCHANGED <<ecKeys, ecSig, ecForms, ecDer>>
  /\ UNCHANGED ECDSA_Rest

\* the two forms of the signature sign returned: the fields r and s alone,
\* and the DER string alone
ECDSA_directForm(sig) == [ECDSA_NoSig EXCEPT !.defined = TRUE, !.r = sig.r, !.s = sig.s]
ECDSA_derForm(sig) == [ECDSA_NoSig EXCEPT !.defined = TRUE, !.signature = sig.signature]

\* two verify calls, one after the other, on the two forms of the signature
\* sign returned, with one message and one key object
ECDSA_verify_forms_call ==
  /\ algorithm = "ECDSA"
  /\ ecSig.status = "ret"
  /\ ~ecForms.called
  /\ \E message \in MESSAGES, keys \in {ecKeys} \cup ECDSA_BadKeys :
       \E direct \in {ECDSA_verify(ecdsa, message, ECDSA_directForm(ecSig.sig), keys)} :
       \E der \in {ECDSA_verify([ecdsa EXCEPT !.modInverseCache = direct.cache], message,
                                ECDSA_derForm(ecSig.sig), keys)} :
          /\ ecdsa' = [ecdsa EXCEPT !.modInverseCache = der.cache]
          /\ ecForms' = [called |-> TRUE, message |-> message, keys |-> keys,
                         direct |-> direct.result, der |-> der.result,
                         parsedDirect |-> direct.parsed, parsedDer |-> der.parsed]
  /\ UNCHANGED <<ecKeys, ecSig, ecOut, ecDer>>
  /\ UNCHANGED ECDSA_Rest

\* derEncode(r, s) for r and s in [1, n-1]
ECDSA_derEncode_call ==
  /\ algorithm = "ECDSA"
  /\ ecDer.stage = "none"
  /\ \E r \in 1..(ECDSA_n - 1), s \in 1..(ECDSA_n - 1) :
       ecDer' = [stage |-> "encoded", r |-> r, s |-> s,
                 derHex |-> ECDSA_derEncode(r, s), decoded |-> Throw]
  /\ UNCHANGED <<ecdsa, ecKeys, ecSig, ecOut, ecForms>>
  /\ UNCHANGED ECDSA_Rest

\* derDecode of the string derEncode returned
ECDSA_derDecode_call ==
  /\ algorithm = "ECDSA"
  /\ ecDer.stage = "encoded"
  /\ ecDer' = [ecDer EXCEPT !.stage = "decoded", !.decoded = ECDSA_derDecode(ecDer.derHex)]
  /\ UNCHANGED <<ecdsa, ecKeys, ecSig, ecOut, ecForms>>
  /\ UNCHANGED ECDSA_Rest

ECDSA_Next ==
  \/ ECDSA_generateKeys_call
  \/ ECDSA_sign_call
  \/ ECDSA_verify_call

\* generateKeys, and sign with the generated and with imported key pairs
ECDSA_ImportedNext ==
  \/ ECDSA_generateKeys_call
  \/ ECDSA_sign_call
  \/ ECDSA_sign_imported_call

\* the calls on the ECDSA instance, verify also on the two forms of a signature
ECDSA_FormsNext ==
  \/ ECDSA_generateKeys_call
  \/ ECDSA_sign_call
  \/ ECDSA_verify_call
  \/ ECDSA_verify_forms_call

\* derEncode and derDecode alone
ECDSA_DerNext ==
  \/ ECDSA_derEncode_call
  \/ ECDSA_derDecode_call

Init ==
  /\ algorithm \in ALGORITHMS
  /\ Factory_Init /\ DSA_Init /\ RSA_Init /\ ECDSA_Init /\ Helper_Init
Next == DSA_Next \/ RSA_Next \/ ECDSA_Next
Spec == Init /\ [][Next]_vars

InitDSA == Init /\ algorithm = "DSA"
SpecDSA == InitDSA /\ [][DSA_Next]_vars
SpecDSASequential == InitDSA /\ [][DSA_SequentialNext]_vars
SpecDSAOverlap == InitDSA /\ [][DSA_OverlapNext]_vars
SpecDSASignOverlap == InitDSA /\ [][DSA_SignOverlapNext]_vars
SpecDSAOther == InitDSA /\ [][DSA_OtherNext]_vars
InitRSA == Init /\ algorithm = "RSA"
SpecRSA == InitRSA /\ [][RSA_Next]_vars
SpecRSAOverlap == InitRSA /\ [][RSA_OverlapNext]_vars
SpecRSASignOverlap == InitRSA /\ [][RSA_SignOverlapNext]_vars
\* the RSA instance with the scaled public exponent
InitRSAScaled ==
  /\ algorithm = "RSA"
  /\ Factory_Init /\ DSA_Init /\ ECDSA_Init /\ Helper_Init
  /\ rsa = [RSA_New EXCEPT !.e = RSA_E_SCALED]
  /\ rsaSigning = [c \in RSA_CALLERS |-> RSA_NoSigning]
  /\ rsaPc = [c \in RSA_CALLERS |-> "idle"]
  /\ rsaGen = [c \in RSA_CALLERS |-> RSA_NoGen]
  /\ rsaRet = [c \in RSA_CALLERS |-> RSA_NoRet]
  /\ rsaKeys = RSA_NoKeys
  /\ rsaSig = RSA_NoSign
  /\ rsaOut = RSA_NoOut
SpecRSAScaled == InitRSAScaled /\ [][RSA_OverlapNext]_vars
InitECDSA == Init /\ algorithm = "ECDSA"
SpecECDSA == InitECDSA /\ [][ECDSA_Next]_vars
SpecFactory == Init /\ [][Factory_Next]_vars
SpecECDSAForms == InitECDSA /\ [][ECDSA_FormsNext]_vars
SpecECDSADer == InitECDSA /\ [][ECDSA_DerNext]_vars
SpecECDSAImported == InitECDSA /\ [][ECDSA_ImportedNext]_vars
InitHelpers == Init /\ algorithm = "RSA"
SpecModInverse == InitHelpers /\ [][ModInverse_Next]_vars
SpecMillerRabin == InitHelpers /\ [][MillerRabin_Next]_vars
SpecSample == InitHelpers /\ [][Sample_Next]_vars
SpecPssRoundTrip == InitHelpers /\ [][PssRoundTrip_Next]_vars

(***************************************************************************)
(* Properties                                                              *)
(***************************************************************************)
\* C1: when the last verify call of the RSA instance was given the signature
\* object sign returned, unchanged, with the message and the key pair sign
\* was given (a key pair generateKeys returned), the call gave true.
C1_RSA_RoundTrip ==
  (/\ rsaOut.called
   /\ rsaSig.status = "ret"
   /\ rsaOut.message = rsaSig.message
   /\ rsaOut.signature = rsaSig.sig
   /\ rsaOut.keys = rsaSig.keys)
  => rsaOut.result = TRUE

\* C1 witness: the signature sign returned for the empty message was
\* verified with the generated key pair and accepted.
C1_Witness ==
  /\ rsaOut.called
  /\ rsaSig.status = "ret"
  /\ rsaOut.message = << >>
  /\ rsaSig.message = << >>
  /\ rsaOut.signature = rsaSig.sig
  /\ rsaOut.keys = rsaSig.keys
  /\ rsaOut.keys = rsaKeys
  /\ rsaOut.result = TRUE

\* C2: on the DSA instance that generated the key pair, whatever sign calls
\* were made before (whatever the used-nonce set holds), verifying the
\* signature sign returned for a message, with that message and key pair,
\* gives true.
C2_DSA_RoundTrip ==
  (/\ dsaOut.called
   /\ DSA_HasLast
   /\ dsaOut.message = DSA_Last.message
   /\ dsaOut.signature = DSA_Last.sig
   /\ dsaOut.keys = DSA_Last.keys)
  => dsaOut.result = TRUE

\* C2 witness: a second signature of the instance, of the empty message, was
\* verified and accepted, with two nonces in the used-nonce set.
C2_Witness ==
  /\ dsaOut.called
  /\ DSA_HasLast
  /\ dsaOut.message = DSA_Last.message
  /\ dsaOut.signature = DSA_Last.sig
  /\ dsaOut.keys = DSA_Last.keys
  /\ dsaOut.result = TRUE
  /\ Len(dsaSigs) = 2
  /\ dsaOut.message = << >>
  /\ Cardinality(dsa.usedKValues) >= 2

\* C3: when the last verify call of the ECDSA instance was given the
\* signature object sign returned, with the message and the key pair sign
\* was given (the key pair generateKeys returned), the call gave true.
C3_ECDSA_RoundTrip ==
  (/\ ecOut.called
   /\ ecSig.status = "ret"
   /\ ecOut.message = ecSig.message
   /\ ecOut.signature = ecSig.sig
   /\ ecOut.keys = ecSig.keys)
  => ecOut.result = TRUE

\* C4: RSA.verify gives true only when the EMSA-PSS verification of
\* signature^e mod n against the digest of the message succeeds.
C4_RSA_OnlyViaPSS ==
  (rsaOut.called /\ rsaOut.result = TRUE) =>
    LET n == rsaOut.keys.n.v
        salt == rsaOut.signature.salt
    IN RSA_emsa_pss_verify(sha256(rsaOut.message),
                           ToHex(RSA_modExp(rsaOut.signature.signature.v, RSA_e, n)),
                           RSA_getBitLength(n) - 1,
                           IF Len(salt) > 0 THEN Salt(hexToBytes(salt)) ELSE NoSalt)

\* C5: the result of verify does not change when the fields messageHash and
\* salt of the signature object are replaced or dropped, the message, the
\* signature integer (RSA) or r and s (DSA, ECDSA) and the key being the
\* same.
C5_InformationalFieldsIgnored ==
  /\ (rsaOut.called /\ rsaOut.signature.defined) =>
       \A h \in {<< >>, sha256(rsaOut.message)}, s \in {<< >>, <<0, 1>>} :
         RSA_verify(rsa, rsaOut.message,
                    [rsaOut.signature EXCEPT !.messageHash = h, !.salt = s],
                    rsaOut.keys).result = rsaOut.result
  /\ (dsaOut.called /\ dsaOut.signature.defined) =>
       \A h \in {<< >>, DSA_getFullSHA256(dsaOut.message)} :
         DSA_verify(dsa, dsaOut.message, [dsaOut.signature EXCEPT !.messageHash = h],
                    dsaOut.keys).result = dsaOut.result
  /\ (ecOut.called /\ ecOut.signature.defined) =>
       \A h \in {<< >>, sha256(ecOut.message)} :
         ECDSA_verify(ecdsa, ecOut.message, [ecOut.signature EXCEPT !.messageHash = h],
                      ecOut.keys).result = ecOut.result

\* C6: two sign calls made one after the other on the instance with the
\* same key pair and the same message derive the same nonce k and return
\* the same r and s.
C6_DSA_SameNonce ==
  \A i \in 1..(Len(dsaSigs) - 1) :
    (/\ dsaSigs[i].status = "ret" /\ dsaSigs[i + 1].status = "ret"
     /\ dsaSigs[i].message = dsaSigs[i + 1].message
     /\ dsaSigs[i].keys = dsaSigs[i + 1].keys)
    => (/\ dsaSigs[i].k = dsaSigs[i + 1].k
        /\ dsaSigs[i].sig.r = dsaSigs[i + 1].sig.r
        /\ dsaSigs[i].sig.s = dsaSigs[i + 1].sig.s)

\* C7: whatever modInverseCache held when sign was called, the call did
\* what a call with the same private key and message does on a new
\* instance: the same nonce, r, s and DER string, or no return.  Any two
\* calls with the same private key and message so give the same result.
C7_ECDSA_SignDeterministic ==
  ecSig.status # "none" =>
    \E fresh \in {ECDSA_sign(ECDSA_New, ecSig.message, ecSig.keys, MaxRetry)} :
      /\ fresh.status = ecSig.status
      /\ fresh.k = ecSig.k
      /\ fresh.sig = ecSig.sig

\* C7 witness: sign returned a signature on an instance whose cache held
\* the entry of generateKeys and entries of earlier sign or verify calls.
C7_Witness ==
  /\ ecSig.status = "ret"
  /\ ecSig.entries >= 4
  /\ ecSig.sig.r.v > 0
  /\ ecSig.sig.signature = ECDSA_derEncode(ecSig.sig.r.v, ecSig.sig.s.v)

\* C8: a verify call of DSA or ECDSA whose r or s is 0, the group order or
\* more gives false, and computes no modular inverse, exponentiation or
\* point multiplication.
C8_RangeRejected ==
  /\ (/\ dsaOut.called
      /\ dsaOut.keys.defined
      /\ \A f \in {dsaOut.keys.p, dsaOut.keys.q, dsaOut.keys.g, dsaOut.keys.y} : CanBigInt(f)
      /\ dsaOut.signature.defined
      /\ CanBigInt(dsaOut.signature.r) /\ CanBigInt(dsaOut.signature.s)
      /\ \E v \in {dsaOut.signature.r.v, dsaOut.signature.s.v} :
            v = 0 \/ v >= dsaOut.keys.q.v)
     => (dsaOut.result = FALSE /\ dsaOut.work = << >>)
  /\ (/\ ecOut.called
      /\ ecOut.parsed # << >>
      /\ \E v \in {ecOut.parsed[1], ecOut.parsed[2]} : v = 0 \/ v >= ECDSA_n)
     => (ecOut.result = FALSE /\ ecOut.work = << >>)

\* C8 witness: DSA.verify was given the returned signature with r replaced
\* by q, and rejected it without computing anything.
C8_Witness ==
  /\ dsaOut.called
  /\ dsaOut.keys = dsaKeys
  /\ dsaOut.signature.defined
  /\ CanBigInt(dsaOut.signature.r)
  /\ dsaOut.signature.r.v = dsaKeys.q.v
  /\ dsaOut.signature.s = DSA_Last.sig.s
  /\ dsaOut.result = FALSE
  /\ dsaOut.work = << >>

\* C9: an RSA.verify call whose signature integer is negative or at least n
\* gives false, whatever the fields messageHash, salt, n and
\* originalSignature of the signature object hold.
C9_RSA_RangeRejected ==
  (/\ rsaOut.called
   /\ rsaOut.keys.defined /\ CanBigInt(rsaOut.keys.n)
   /\ rsaOut.signature.defined /\ CanBigInt(rsaOut.signature.signature)
   /\ \/ rsaOut.signature.signature.v < 0
      \/ rsaOut.signature.signature.v >= rsaOut.keys.n.v)
  => rsaOut.result = FALSE

\* C9 witness: the signature integer n was rejected though the object
\* carried the digest of the message, the salt of sign, the modulus and an
\* originalSignature equal to the signature.
C9_Witness ==
  /\ rsaOut.called
  /\ rsaOut.keys = rsaKeys
  /\ rsaKeys.defined
  /\ rsaOut.signature.signature = JNum(rsaKeys.n.v)
  /\ rsaOut.signature.originalSignature = rsaOut.signature.signature
  /\ rsaOut.signature.messageHash = sha256(rsaOut.message)
  /\ Len(rsaOut.signature.salt) > 0
  /\ rsaOut.signature.n = rsaKeys.n
  /\ rsaOut.result = FALSE

\* C10: no verify call of the three classes lets an exception out, and a
\* call given a signature object or a key object it cannot parse gives
\* false.
C10_VerifyNeverThrows ==
  /\ rsaOut.called =>
       /\ ~rsaOut.thrown
       /\ (\/ ~rsaOut.keys.defined \/ ~CanBigInt(rsaOut.keys.n)
           \/ ~rsaOut.signature.defined \/ ~CanBigInt(rsaOut.signature.signature))
          => rsaOut.result = FALSE
  /\ dsaOut.called =>
       /\ ~dsaOut.thrown
       /\ (\/ ~dsaOut.keys.defined
           \/ \E f \in {dsaOut.keys.p, dsaOut.keys.q, dsaOut.keys.g, dsaOut.keys.y} :
                 ~CanBigInt(f)
           \/ ~dsaOut.signature.defined
           \/ ~CanBigInt(dsaOut.signature.r) \/ ~CanBigInt(dsaOut.signature.s))
          => dsaOut.result = FALSE
  /\ ecOut.called =>
       /\ ~ecOut.thrown
       /\ (\/ ~ecOut.keys.defined
           \/ ~CanBigInt(ecOut.keys.x) \/ ~CanBigInt(ecOut.keys.y)
           \/ ECDSA_parseSignature(ecOut.signature).status # "ok")
          => ecOut.result = FALSE

\* C10 witness: ECDSA.verify was given a DER string cut short, which
\* derDecode throws on, and gave false.
C10_Witness ==
  /\ ecOut.called
  /\ ecOut.keys = ecKeys
  /\ ecOut.signature.defined
  /\ ecOut.signature.r = JUndef
  /\ Len(ecOut.signature.signature) > 0
  /\ ~ECDSA_derDecode(ecOut.signature.signature).ok
  /\ ecOut.result = FALSE
  /\ ~ecOut.thrown

\* C11: a signature object ECDSA.sign returns is fully formed: r and s lie
\* in 1..n-1, the DER string is not empty and encodes exactly (r, s); a call
\* that fails inside (a private key BigInt() rejects, a failing nonce
\* derivation or inverse) returns no signature object.
C11_ECDSA_SignWellFormed ==
  ecSig.status = "ret" =>
    /\ ecSig.sig.r.v \in 1..(ECDSA_n - 1)
    /\ ecSig.sig.s.v \in 1..(ECDSA_n - 1)
    /\ ecSig.sig.signature # << >>
    /\ ecSig.sig.signature = ECDSA_derEncode(ecSig.sig.r.v, ecSig.sig.s.v)

\* C12: a verify call of RSA, DSA or ECDSA that is given the signature
\* object sign returned, unchanged, and the key pair sign was given, with a
\* message whose digest differs from the digest of the signed message, gives
\* false.
C12_MessageTamperRejected ==
  /\ (/\ rsaOut.called
      /\ rsaSig.status = "ret"
      /\ rsaOut.signature = rsaSig.sig
      /\ rsaOut.keys = rsaSig.keys
      /\ sha256(rsaOut.message) # sha256(rsaSig.message))
     => rsaOut.result = FALSE
  /\ (/\ dsaOut.called
      /\ DSA_HasLast
      /\ dsaOut.signature = DSA_Last.sig
      /\ dsaOut.keys = DSA_Last.keys
      /\ DSA_getFullSHA256(dsaOut.message) # DSA_getFullSHA256(DSA_Last.message))
     => dsaOut.result = FALSE
  /\ (/\ ecOut.called
      /\ ecSig.status = "ret"
      /\ ecOut.signature = ecSig.sig
      /\ ecOut.keys = ecSig.keys
      /\ sha256(ecOut.message) # sha256(ecSig.message))
     => ecOut.result = FALSE

\* C12 witness: DSA.verify was given the signature of the empty message with
\* the message "a", computed the inverse and both exponentiations, and gave
\* false.
C12_Witness ==
  /\ dsaOut.called
  /\ DSA_HasLast
  /\ DSA_Last.message = << >>
  /\ dsaOut.message = <<97>>
  /\ dsaOut.signature = DSA_Last.sig
  /\ dsaOut.keys = DSA_Last.keys
  /\ dsaOut.work = <<"modInverse", "modExp", "modExp">>
  /\ dsaOut.result = FALSE

\* C13: a verify call of DSA or ECDSA that is given the message and the key
\* pair of sign and the signature object sign returned with r replaced by
\* r + 1, or with s replaced by s + 1, gives false, also when the replaced
\* value is still in the range 1..q-1 (1..n-1).
C13_SignatureTamperRejected ==
  /\ (/\ dsaOut.called
      /\ DSA_HasLast
      /\ dsaOut.message = DSA_Last.message
      /\ dsaOut.keys = DSA_Last.keys
      /\ \/ dsaOut.signature = [DSA_Last.sig EXCEPT !.r = JNum(@.v + 1)]
         \/ dsaOut.signature = [DSA_Last.sig EXCEPT !.s = JNum(@.v + 1)])
     => dsaOut.result = FALSE
  /\ (/\ ecOut.called
      /\ ecSig.status = "ret"
      /\ ecOut.message = ecSig.message
      /\ ecOut.keys = ecSig.keys
      /\ \/ ecOut.signature = [ecSig.sig EXCEPT !.r = JNum(@.v + 1)]
         \/ ecOut.signature = [ecSig.sig EXCEPT !.s = JNum(@.v + 1)])
     => ecOut.result = FALSE

\* C13 witness: DSA.verify was given s + 1, a value still below q, computed
\* the inverse and both exponentiations, and gave false.
C13_Witness ==
  /\ dsaOut.called
  /\ DSA_HasLast
  /\ dsaOut.message = DSA_Last.message
  /\ dsaOut.keys = DSA_Last.keys
  /\ dsaOut.signature = [DSA_Last.sig EXCEPT !.s = JNum(@.v + 1)]
  /\ dsaOut.signature.s.v < dsaOut.keys.q.v
  /\ dsaOut.work = <<"modInverse", "modExp", "modExp">>
  /\ dsaOut.result = FALSE

\* C14: the public point of a key pair generateKeys returned is d.G as the
\* bit-by-bit double-and-add computes it: the window method that
\* pointMultiplyOptimized uses for the base point gives the same point as
\* its branch for any other point.
C14_ECDSA_PublicKeyIsDG ==
  ecKeys.defined =>
    [x |-> ecKeys.x.v, y |-> ecKeys.y.v]
      = ECDSA_pointMultiplyGeneric(EmptyCache, ECDSA_G, ecKeys.d.v).v

\* C15: every key pair a generateKeys call of RSA returned, also a call that
\* overlapped a call of the other caller, has e = 65537 and the same n in
\* both halves, n is the product of the primes p and q of that call, and
\* e.d = 1 modulo phi(n), phi(n) being (p - 1)(q - 1) as generateKeys
\* computes it from the primes of the call.
C15_RSA_KeyPairConsistent ==
  \A c \in RSA_CALLERS :
    rsaRet[c].status = "ret" =>
      /\ rsaRet[c].pair.publicKey.e = 65537
      /\ rsaRet[c].pair.publicKey.n = rsaRet[c].pair.privateKey.n
      /\ rsaRet[c].pair.publicKey.n = rsaRet[c].p * rsaRet[c].q
      /\ MulMod(rsaRet[c].pair.publicKey.e, rsaRet[c].pair.privateKey.d,
                (rsaRet[c].p - 1) * (rsaRet[c].q - 1)) = 1

\* C15 witness: two calls overlapped, each was given its pair, and the
\* fields of the instance hold the modulus of the call that returned last,
\* which is not the modulus of the pair of caller 1.
C15_Witness ==
  /\ rsaRet[1].status = "ret"
  /\ rsaRet[2].status = "ret"
  /\ rsaRet[1].pair.publicKey.n # rsaRet[2].pair.publicKey.n
  /\ rsa.n = rsaRet[2].pair.publicKey.n
  /\ rsaRet[1].pair.publicKey.n = rsaRet[1].p * rsaRet[1].q

\* C16: after generateKeys calls on one DSA instance, each completed before
\* the next starts, every returned key pair carries the same p, q and g,
\* with q dividing p - 1, 1 < g < p, g^q = 1 modulo p, 1 <= x <= q - 1 and
\* y = g^x mod p as the exponentiation loop computes it without the cache.
C16_DSA_KeyInvariants ==
  \A c \in DSA_CALLERS :
    dsaRet[c].status = "ret" =>
      LET k == dsaRet[c].keys IN
      /\ \A c2 \in DSA_CALLERS :
           dsaRet[c2].status = "ret" =>
             /\ dsaRet[c2].keys.p = k.p
             /\ dsaRet[c2].keys.q = k.q
             /\ dsaRet[c2].keys.g = k.g
      /\ (k.p.v - 1) % k.q.v = 0
      /\ 1 < k.g.v /\ k.g.v < k.p.v
      /\ DSA_modExpLoop(k.g.v, k.q.v, k.p.v) = 1
      /\ 1 <= k.x.v /\ k.x.v <= k.q.v - 1
      /\ k.y.v = DSA_modExpLoop(k.g.v, k.x.v, k.p.v)

\* C16 witness: two calls were made one after the other, the first generated
\* the parameters and the second found them, and the two private keys differ.
C16_Witness ==
  /\ dsaRet[1].status = "ret"
  /\ dsaRet[2].status = "ret"
  /\ dsaGen[1].p # 0
  /\ dsaGen[2].p = 0
  /\ dsaRet[1].keys.x # dsaRet[2].keys.x
  /\ dsaRet[1].keys.p = dsaRet[2].keys.p

\* C17: when generateKeys calls on one DSA instance overlap before the
\* parameters exist, generateParameters runs in at most one of them, and
\* every key pair returned carries the same p, q and g, with q dividing
\* p - 1 and g = h^((p-1)/q) mod p for some h, from that p and that q.
C17_DSA_OneTimeInit ==
  /\ Cardinality({c \in DSA_CALLERS :
                    dsaPc[c] \in {"genQ", "setQ", "genP", "setP", "setG"}
                      \/ dsaGen[c].q # 0}) <= 1
  /\ \A c \in DSA_CALLERS :
       dsaRet[c].status = "ret" =>
         LET k == dsaRet[c].keys IN
         /\ \A c2 \in DSA_CALLERS :
              dsaRet[c2].status = "ret" =>
                /\ dsaRet[c2].keys.p = k.p
                /\ dsaRet[c2].keys.q = k.q
                /\ dsaRet[c2].keys.g = k.g
         /\ (k.p.v - 1) % k.q.v = 0
         /\ \E h \in 2..(k.p.v - 2) :
              k.g.v = DSA_modExpLoop(h, (k.p.v - 1) \div k.q.v, k.p.v)

\* C18: for all r and s in [1, n-1], derDecode(derEncode(r, s)) is (r, s),
\* and the encoding is the byte 0x30, a length byte that counts the bytes
\* after it, and two INTEGERs, each the byte 0x02, its length and content
\* bytes of which the first has its high bit clear.
C18_DER_RoundTrip ==
  /\ ecDer.stage = "decoded" =>
       /\ ecDer.decoded.ok
       /\ ecDer.decoded.v = [r |-> ecDer.r, s |-> ecDer.s]
  /\ ecDer.stage \in {"encoded", "decoded"} =>
       LET b == hexToBytes(ecDer.derHex)
           rLen == b[4]
           sLen == b[6 + rLen]
       IN /\ Len(ecDer.derHex) = 2 * Len(b)
          /\ b[1] = 48
          /\ b[2] = Len(b) - 2
          /\ b[3] = 2
          /\ rLen >= 1
          /\ b[5] < 128
          /\ b[5 + rLen] = 2
          /\ sLen >= 1
          /\ b[7 + rLen] < 128
          /\ Len(b) = 6 + rLen + sLen

\* C18 witness: r = 255, one byte 0xFF that is given a leading zero byte, and
\* s = 1, shorter than n, were encoded as 30 07 02 02 00 ff 02 01 01 and
\* decoded to (255, 1).
C18_Witness ==
  /\ ecDer.stage = "decoded"
  /\ ecDer.r = 255
  /\ ecDer.s = 1
  /\ hexToBytes(ecDer.derHex) = <<48, 7, 2, 2, 0, 255, 2, 1, 1>>
  /\ ecDer.decoded = Ok([r |-> 255, s |-> 1])

\* C19: the verify call given the fields r and s of a signature sign
\* returned and the verify call given its DER string alone, with the same
\* message and key object, give the same result, and read the same r and s
\* when both read a signature; a verify call given an object with neither
\* the fields r and s nor a DER string gives false.
C19_ECDSA_FormsAgree ==
  /\ ecForms.called =>
       /\ ecForms.direct = ecForms.der
       /\ (ecForms.parsedDirect # << >> /\ ecForms.parsedDer # << >>) =>
            ecForms.parsedDirect = ecForms.parsedDer
  /\ (/\ ecOut.called
      /\ ecOut.signature.defined
      /\ ecOut.signature.r = JUndef
      /\ ecOut.signature.s = JUndef
      /\ ecOut.signature.signature = << >>)
     => (ecOut.result = FALSE /\ ~ecOut.thrown)

\* C19 witness: sign returned r and s that differ, with their DER string, and
\* the two verify calls, given the message signed and the key pair, each
\* read that r and that s.
C19_Witness ==
  /\ ecForms.called
  /\ ecSig.status = "ret"
  /\ ecSig.sig.signature # << >>
  /\ ecSig.sig.r # ecSig.sig.s
  /\ ecForms.message = ecSig.message
  /\ ecForms.keys = ecKeys
  /\ ecForms.parsedDirect = <<ecSig.sig.r.v, ecSig.sig.s.v>>
  /\ ecForms.parsedDer = <<ecSig.sig.r.v, ecSig.sig.s.v>>
  /\ ecForms.direct = ecForms.der

\* C20: after any getAlgorithm calls the factory holds instances only under
\* the names RSA, DSA and ECDSA, each of the class of its name and each a
\* different object; the calls with names that are equal when upper-cased
\* all returned one object, the one held; a call with any other name threw
\* an error with the name as it was given and left the instances as they were.
C20_Factory_Registry ==
  /\ DOMAIN factory.instances \subseteq FACTORY_CASES
  /\ \A n \in DOMAIN factory.instances : factory.instances[n].class = n
  /\ \A n1, n2 \in DOMAIN factory.instances :
       factory.instances[n1].id = factory.instances[n2].id => n1 = n2
  /\ \A n1, n2 \in DOMAIN factory.returned :
       toUpperCase(n1) = toUpperCase(n2) =>
         /\ factory.returned[n1] = factory.returned[n2]
         /\ factory.returned[n1] = {factory.instances[toUpperCase(n1)]}
  /\ factory.last.called =>
       /\ factory.last.thrown <=> toUpperCase(factory.last.algorithm) \notin FACTORY_CASES
       /\ factory.last.thrown =>
            /\ factory.last.error = factory.last.algorithm
            /\ factory.instances = factory.last.before
       /\ ~factory.last.thrown =>
            /\ factory.last.value = factory.instances[toUpperCase(factory.last.algorithm)]
            /\ factory.last.value.class = toUpperCase(factory.last.algorithm)

\* C20 witness: calls with 'rsa' and with 'RSA' returned the one RSA object,
\* a DSA object is held too, and the last call, with 'UnsupportedAlgorithm',
\* threw and left both in place.
C20_Witness ==
  /\ <<114, 115, 97>> \in DOMAIN factory.returned
  /\ <<82, 83, 65>> \in DOMAIN factory.returned
  /\ factory.returned[<<114, 115, 97>>] = factory.returned[<<82, 83, 65>>]
  /\ <<68, 83, 65>> \in DOMAIN factory.instances
  /\ factory.last.called
  /\ factory.last.thrown
  /\ Len(factory.last.error) = 20
  /\ factory.created = 2
  /\ factory.instances = factory.last.before

\* C21: a generateKeys call of RSA reports a failure only after it computed
\* keys from more than one pair of primes: it does not throw for the first
\* pair whose (p - 1)(q - 1) has no inverse of e.
C21_RSA_KeyGenRetries ==
  \A c \in RSA_CALLERS :
    rsaRet[c].status = "throw" => rsaRet[c].attempts > 1

\* C22: the salt a returned RSA signature carries has min(SALT_LENGTH,
\* max(0, emLen - HASH_LENGTH - 2)) bytes, emLen being the byte length of
\* bitlength(n) - 1 bits, for every message, the empty one included.
C22_RSA_SaltLength ==
  rsaSig.status = "ret" =>
    LET emLen == CeilDiv(BitLen(rsaSig.keys.n.v) - 1, 8)
    IN  Len(rsaSig.sig.salt) = 2 * Min(SALT_LENGTH, Max(0, emLen - HASH_LENGTH - 2))

\* C23: for a modulus m > 1, modInverse(a, m) of each of the three classes
\* returns, when gcd(a, m) = 1, the one x of 1..m-1 with a x = 1 (mod m), and
\* throws when gcd(a, m) # 1, a = 0 (mod m) included.
C23_ModInverse ==
  (inv.called /\ inv.m > 1) =>
    LET a == inv.a
        m == inv.m
        coprime == \A g \in 2..m : ~(a % g = 0 /\ m % g = 0)
    IN  IF coprime
        THEN /\ inv.result.ok
             /\ inv.result.v \in 1..(m - 1)
             /\ \A x \in 1..(m - 1) : ((a * x) % m = 1) <=> (x = inv.result.v)
        ELSE ~inv.result.ok

\* C23 witness: ECDSA.modInverse was asked for the inverse of -4 modulo 7 and
\* returned 5.
C23_Witness ==
  /\ inv.called /\ inv.class = "ECDSA" /\ inv.m = 7 /\ inv.a = 0 - 4
  /\ inv.result = Ok(5)

\* C24: the salt field of every result of RSA.sign is the salt embedded in
\* the encoded message that call signed, also when sign calls on the one
\* instance overlap.
C24_RSA_ReturnedSaltIsEmbedded ==
  \A c \in RSA_CALLERS :
    rsaSigning[c].status = "ret" =>
      rsaSigning[c].sig.salt = bytesToHex(rsaSigning[c].embedded)

\* C25: on a DSA instance no value was returned by generateDeterministicK
\* more than once, whatever sign calls were made and however they were
\* interleaved; each returned k is in 1..q-1, was absent from usedKValues
\* when it was chosen and is in usedKValues from then on.
C25_DSA_NonceUnique ==
  /\ \A i, j \in 1..Len(dsaNonces) : dsaNonces[i].k = dsaNonces[j].k => i = j
  /\ \A i \in 1..Len(dsaNonces) :
       /\ dsaNonces[i].k \in 1..(dsaNonces[i].q - 1)
       /\ dsaNonces[i].absent
       /\ dsaNonces[i].added
       /\ dsaNonces[i].k \in dsa.usedKValues

\* C25 witness: two sign calls with one key pair and one message overlapped
\* and both were given a nonce.
C25_Witness ==
  /\ Len(dsaNonces) = 2
  /\ dsaSigning[1].keys = dsaSigning[2].keys
  /\ dsaSigning[1].message = dsaSigning[2].message
  /\ dsaSigning[1].pc = "getFullSHA256"
  /\ dsaSigning[2].pc = "getFullSHA256"

\* C26: a sign call of ECDSA with a private key BigInt() accepts returns,
\* also when an attempt gave r = 0 or s = 0: the retry takes another nonce
\* and the call ends with r and s in 1..n-1.
C26_ECDSA_RetryTerminates ==
  (ecSig.status # "none" /\ CanBigInt(ecSig.keys.d)) =>
    /\ ecSig.status = "ret"
    /\ ecSig.sig.r.v \in 1..(ECDSA_n - 1)
    /\ ecSig.sig.s.v \in 1..(ECDSA_n - 1)

\* C27: a signature sign returned on the instance that generated the key
\* pair is accepted by verify on any other DSA instance given that message
\* and key pair, whether the other instance has no parameters or parameters
\* of its own.
C27_DSA_VerifyOnAnyInstance ==
  (dsaOther.out.called /\ DSA_HasLast
     /\ dsaOther.out.message = DSA_Last.message
     /\ dsaOther.out.signature = DSA_Last.sig
     /\ dsaOther.out.keys = DSA_Last.keys)
  => dsaOther.out.result = TRUE

\* a^e mod n by repeated multiplication
RECURSIVE PowMod(_, _, _)
PowMod(a, e, n) == IF e = 0 THEN 1 % n ELSE (a * PowMod(a, e - 1, n)) % n

IsPrime(n) == n > 1 /\ \A f \in 2..(n - 1) : n % f # 0

\* base a shows the odd n > 3 composite: a^d mod n is neither 1 nor n-1 and
\* none of the r-1 squarings that follow gives n-1, where n-1 = d 2^r, d odd
MR_Refutes(a, n) ==
  LET d == OddPart(n - 1)
      r == TwoExp(n - 1)
  IN /\ PowMod(a, d, n) \notin {1, n - 1}
     /\ \A j \in 1..(r - 1) : PowMod(a, d * Pow2(j), n) # n - 1

C29_RangeSamplers ==
  sampled.called =>
    /\ sampled.returns # {}
    /\ sampled.returns = sampled.min..sampled.max

\* C30: the EMSA-PSS round trip without a known salt.  Whenever
\* emsa_pss_encode accepts the digest, the salt and emBits, handing the
\* hexadecimal form of the integer EM to emsa_pss_verify with no known salt
\* returns true, also when the first byte of EM is 0x00.
C30_PSS_RoundTrip ==
  (pss.called /\ pss.encoded) => pss.result = TRUE

====
